---- MODULE Spec2Model ----
(***************************************************************************)
(* Session / token lifecycle of the blog front end: the persisted session  *)
(* (localStorage), AuthService, the two request authorizers (the class     *)
(* AuthInterceptor and the functional authInterceptorFn), and the          *)
(* AppComponent expiry watch, logout and navigation check.                 *)
(***************************************************************************)
EXTENDS Integers, FiniteSets, Sequences, TLC

\* ------------------------------------------------------------------ bounds
NReq == 2            \* protected requests that can be in flight together
MaxTime == 3         \* the clock runs over 1..MaxTime (seconds)
MaxIssued == 1       \* token pairs the server hands out in one behaviour
MaxWatchCalls == 2   \* refresh calls of the expiry watch in flight together
MaxWatchCallsBeside == 1  \* the same, beside the requests of the authorizer
AccessTTL == 1       \* lifetime the server gives an access token (seconds)
RefreshTTL == 2      \* lifetime the server gives a refresh token (seconds)

Req == 1..NReq

VARIABLES
    store,                  \* localStorage: token, refreshToken, user, viewedArticles
    now,                    \* wall clock, whole seconds
    wired,                  \* which authorizer the HTTP client is built with
    issued,                 \* token pairs issued by the server so far
    isRefreshing,           \* AuthInterceptor.isRefreshing
    refreshTokenSubject,    \* AuthInterceptor.refreshTokenSubject (current value)
    req,                    \* the protected requests and where each stands
    watchCalls,             \* refresh calls issued by the expiry watch, in flight
    appIsRefreshing,        \* AppComponent.isRefreshing
    refreshTokenExpiresAt,  \* AppComponent.refreshTokenExpiresAt (0 = null)
    watchRunning,           \* the setInterval of startTokenExpirationCheck is alive
    lastOp,                 \* what the step just taken was, when it was a
                            \* logout (and what became of its POST) or a login
    socket,                 \* SocketService.socket: "null", or the transport
                            \* state of the instance it refers to
    isConnecting,           \* SocketService.isConnecting
    listenersSetup,         \* SocketService.listenersSetup
    registered,             \* listener sets registered on SocketService.socket
    strays,                 \* sockets created, never closed, no longer referred to
    navigate,               \* target of the router.navigate call of the step
                            \* just taken ("none" when it made none)
    notifications,          \* AppComponent.notifications: the list of the
                            \* bell dropdown, newest first
    tokenRemoved,           \* history: the running watch was alive at a moment
                            \* when no token was stored (recorded by the
                            \* steps that trace it, FALSE elsewhere)
    comments,               \* ArticleDetailComponent.comments: the comment tree
    commentCount,           \* article().commentCount of the displayed article
    parentOf,               \* the server's comments: the parent of each one
                            \* (0 for a root comment)
    tokenIn,                \* the argument of the last isTokenExpired call checked
    expired,                \* what that call returned ("none" before any call)
    article,                \* ArticleDetailComponent.article: the displayed
                            \* article (NoArticle before it is loaded)
    articleState,           \* the 'articles' slice of the NgRx store
    articlesCall,           \* the getArticles call the loadArticles$ effect
                            \* waits for: "none", "replace" or "append"
    emitted,                \* the messages the step just taken emitted on
                            \* the socket
    timers,                 \* the setTimeout callbacks of the socket's
                            \* 'connect' listener that have not run yet
    appIsAuthenticated,     \* AppComponent.isAuthenticated of the later
                            \* revision: what the last checkAuth saw
    listenerSets            \* the sets of subscriptions setupSocketListeners
                            \* made for the article page that have not ended

vars == <<store, now, wired, issued, isRefreshing,
          refreshTokenSubject, req, watchCalls, appIsRefreshing,
          refreshTokenExpiresAt, watchRunning, lastOp, socket, isConnecting,
          listenersSetup, registered, strays, navigate, notifications,
          tokenRemoved, comments, commentCount, parentOf, tokenIn, expired,
          article, articleState, articlesCall, emitted, timers,
          appIsAuthenticated, listenerSets>>

\* the variables of the messages sent to the realtime server
roomVars == <<emitted, timers>>

\* the variables of the displayed article and of the article list
listVars == <<article, articleState, articlesCall>>

\* the variables that the steps of the session and of the comment tree leave
\* alone: those of the checks of single functions and of the articles
asideVars == <<tokenIn, expired, listVars, roomVars, appIsAuthenticated,
               listenerSets>>

\* the variables of the article page
pageVars == <<comments, commentCount, parentOf>>

\* ------------------------------------------------------------------ values
\* no callback of the 'connect' listener is waiting to run
NoTimers == [count |-> 0, ready |-> 0]

\* the article signal before loadArticle has answered
NoArticle == [id |-> "none", views |-> 0, likesCount |-> 0]

\* article.reducer.ts: initialState; pagination is page and pages, page 0
\* stands for null
initialState ==
    [articles |-> <<>>, pagination |-> [page |-> 0, pages |-> 0],
     loading |-> FALSE, error |-> "null"]

\* A stored string: null (absent), the empty string, a JWT with an id and an
\* exp claim, or a string that does not decode ("undefined").
Null == [k |-> "null", id |-> 0, exp |-> 0]
EmptyStr == [k |-> "empty", id |-> 0, exp |-> 0]
Undecodable == [k |-> "junk", id |-> 0, exp |-> 0]
Jwt(i, e) == [k |-> "jwt", id |-> i, exp |-> e]

\* Strings that are no JWT with a numeric exp: a second segment that is not
\* base64, base64 of something that is not JSON, a payload that is the JSON
\* value null, a payload object without exp, a payload whose exp is text.
BadBase64 == [k |-> "badBase64", id |-> 0, exp |-> 0]
BadJson == [k |-> "badJson", id |-> 0, exp |-> 0]
NullPayload == [k |-> "nullPayload", id |-> 0, exp |-> 0]
NoExp == [k |-> "noExp", id |-> 0, exp |-> 0]
TextExp == [k |-> "textExp", id |-> 0, exp |-> 0]

\* JavaScript truthiness of a string | null
Truthy(t) == t.k \notin {"null", "empty"}

\* JSON.parse(atob(token.split('.')[1])) succeeds and gives an object
Decodes(t) == t.k \in {"jwt", "noExp", "textExp"}

\* payload.exp * 1000 is a number (not NaN)
NumericExp(t) == t.k = "jwt"

EmptyStore == [token |-> Null, refreshToken |-> Null, user |-> "null",
               viewedArticles |-> "null"]

\* A request: where it stands, the token of its first send (tok), the refresh
\* token of the refresh call made for it (rt), the token of its second send
\* (retok), how often it was handed to the network, and what its caller got.
IdleReq == [pc |-> "idle", kind |-> "api", tok |-> Null, rt |-> Null,
            retok |-> Null, sends |-> 0, via |-> "none", res |-> "none"]

\* The part of the state the handlers read and write, as one record, so that
\* a handler that calls another is the composition of the two.  A request
\* marked "done" and lastOp describe what the last step delivered:
\* every step starts with them taken away.
St == [store |-> store, isRefreshing |-> isRefreshing,
       refreshTokenSubject |-> refreshTokenSubject,
       req |-> [r \in Req |-> IF req[r].pc = "done" THEN IdleReq ELSE req[r]],
       watchCalls |-> watchCalls, appIsRefreshing |-> appIsRefreshing,
       refreshTokenExpiresAt |-> refreshTokenExpiresAt,
       watchRunning |-> watchRunning, lastOp |-> "none",
       socket |-> socket, isConnecting |-> isConnecting,
       listenersSetup |-> listenersSetup, registered |-> registered,
       strays |-> strays, navigate |-> "none",
       notifications |-> notifications, tokenRemoved |-> tokenRemoved]

\* the handler's result becomes the state of the session
Assign(s) ==
    \E t \in {s} :
          /\ store' = t.store
          /\ isRefreshing' = t.isRefreshing
          /\ refreshTokenSubject' = t.refreshTokenSubject
          /\ req' = t.req
          /\ watchCalls' = t.watchCalls
          /\ appIsRefreshing' = t.appIsRefreshing
          /\ refreshTokenExpiresAt' = t.refreshTokenExpiresAt
          /\ watchRunning' = t.watchRunning
          /\ lastOp' = t.lastOp
          /\ socket' = t.socket
          /\ isConnecting' = t.isConnecting
          /\ listenersSetup' = t.listenersSetup
          /\ registered' = t.registered
          /\ strays' = t.strays
          /\ navigate' = t.navigate
          /\ notifications' = t.notifications
          /\ tokenRemoved' = t.tokenRemoved

Commit(s) ==
    /\ Assign(s)
    /\ UNCHANGED <<asideVars, pageVars>>

\* ------------------------------------------------------------- AuthService
\* AuthService.isTokenExpired
isTokenExpired(token) ==
    IF ~Truthy(token) THEN TRUE
    ELSE IF ~Decodes(token) THEN TRUE
    ELSE IF ~NumericExp(token) THEN FALSE      \* NaN < now
    ELSE token.exp * 1000 < now * 1000

\* AuthService.isAuthenticated: !!localStorage.getItem('token')
isAuthenticated(s) == Truthy(s.store.token)

\* clearLocalStorage that forgets the viewedArticles key
clearLocalStorageKeepsViewed(s) ==
    [s EXCEPT !.store = [EmptyStore EXCEPT
                            !.viewedArticles = s.store.viewedArticles]]

\* AuthService.clearLocalStorage
clearLocalStorage(s) == [s EXCEPT !.store = EmptyStore]

\* What a response of login / register / refresh carries.  accessToken and
\* refreshToken are Null when the field is missing.
Response(a, r, u) == [accessToken |-> a, refreshToken |-> r, user |-> u]

\* JSON.stringify(user) written under 'user'
StoredUser(u) == IF u = "null" THEN "undefined" ELSE u

\* localStorage.setItem(key, value) of a possibly missing string
StoredString(t) == IF t.k = "null" THEN Undecodable ELSE t

\* a login tap that writes the access token under another key than 'token'
loginTapOtherKey(s, response) ==
    IF Truthy(response.accessToken)
    THEN [s EXCEPT !.store.refreshToken = StoredString(response.refreshToken),
                   !.store.user = StoredUser(response.user)]
    ELSE s

\* the tap of AuthService.login and of AuthService.register
loginTap(s, response) ==
    IF Truthy(response.accessToken)
    THEN [s EXCEPT !.store.token = response.accessToken,
                   !.store.refreshToken = StoredString(response.refreshToken),
                   !.store.user = StoredUser(response.user)]
    ELSE s

\* the tap of AuthService.refreshToken
refreshTap(s, response) ==
    IF Truthy(response.accessToken) /\ Truthy(response.refreshToken)
    THEN [s EXCEPT !.store.token = response.accessToken,
                   !.store.refreshToken = response.refreshToken,
                   !.store.user = IF response.user # "null" THEN response.user
                                  ELSE @]
    ELSE s

\* the tap of AuthService.getUserProfile
profileTap(s, user) ==
    IF user # "null" THEN [s EXCEPT !.store.user = user] ELSE s

\* The POST /auth/logout of AuthService.logout passes through the wired
\* authorizer like every other call; /auth/logout is not on the allow-list.
\* Both authorizers read the token again and refuse to send without one.
LogoutPost(s) ==
    IF Truthy(s.store.token) THEN [s EXCEPT !.lastOp = "logout:sent"]
    ELSE [s EXCEPT !.lastOp = "logout:blocked"]

\* AuthService.logout
authLogout(s) ==
    LET token == s.store.token
        s1 == clearLocalStorage(s)
    IN  IF ~Truthy(token) THEN [s1 EXCEPT !.lastOp = "logout:noToken"]
        ELSE LogoutPost(s1)


\* ------------------------------------------------- the request authorizers
\* next.handle(request with Authorization: Bearer token)
Send(s, r, token, pc) ==
    IF pc = "sent"
    THEN [s EXCEPT !.req[r].pc = pc, !.req[r].tok = token,
                   !.req[r].sends = @ + 1]
    ELSE [s EXCEPT !.req[r].pc = pc, !.req[r].retok = token,
                   !.req[r].sends = @ + 1]

\* the observable of request r completes or errors with res
Finish(s, r, res) ==
    [s EXCEPT !.req[r] = [IdleReq EXCEPT !.pc = "done", !.kind = s.req[r].kind,
                                         !.sends = s.req[r].sends,
                                         !.res = res]]

\* a 2xx response reaches the caller; the tap of getUserProfile runs on it
Succeed(s, r) ==
    Finish(IF s.req[r].kind = "profile" THEN profileTap(s, "user") ELSE s,
           r, "ok")

\* An HTTP request as the authorizers look at it: its method and the
\* fragments its URL contains (request.url.includes(fragment)).
Request(method, fragments) == [method |-> method, has |-> fragments]

includes(request, fragment) == fragment \in request.has

AuthLoginCall == Request("POST", {"/auth/login"})
AuthRefreshCall == Request("POST", {"/auth/refresh"})
AuthLogoutCall == Request("POST", {"/auth/logout"})
ArticlesGet == Request("GET", {"/api/articles"})
MyArticlesGet == Request("GET", {"/api/articles", "/articles/my"})
ArticlesPost == Request("POST", {"/api/articles"})
CommentsGet == Request("GET", {"/api/comments/article/"})
AvatarGet == Request("GET", {"/api/users/", "/avatar"})
ProfileGet == Request("GET", {"/api/users/"})

\* the calls the components make
Endpoints == {AuthLoginCall, AuthRefreshCall, AuthLogoutCall, ArticlesGet,
              MyArticlesGet, ArticlesPost, CommentsGet, AvatarGet, ProfileGet}

\* skipAuth of AuthInterceptor.intercept
skipAuth(request) ==
    \/ includes(request, "/auth/login")
    \/ includes(request, "/auth/register")
    \/ includes(request, "/auth/refresh")
    \/ includes(request, "/auth/otp")
    \/ includes(request, "/auth/send-otp")
    \/ includes(request, "/auth/verify-otp")
    \/ includes(request, "/auth/reset-password")
    \/ includes(request, "/auth/forgot-password")

\* skipAuth of authInterceptorFn
skipAuthFn(request) ==
    \/ skipAuth(request)
    \/ /\ request.method = "GET"
       /\ includes(request, "/api/articles")
       /\ ~includes(request, "/articles/my")
    \/ /\ request.method = "GET"
       /\ includes(request, "/api/comments/article/")
    \/ /\ request.method = "GET"
       /\ includes(request, "/api/users/")
       /\ includes(request, "/avatar")

\* next.handle(request) of a request on the allow-list: it goes out as it
\* came, and neither authorizer looks at its answer
Forward(s, r) ==
    Finish([s EXCEPT !.req[r].sends = @ + 1], r, "forwarded")

\* AuthInterceptor.handleSessionExpired
handleSessionExpired(s) == clearLocalStorage(s)

\* the POST /auth/refresh of AuthService.refreshToken, issued for request r
StartRefresh(s, r, via) ==
    [s EXCEPT !.req[r].pc = "refreshing", !.req[r].via = via,
              !.req[r].rt = s.store.refreshToken]

\* AuthInterceptor.handleTokenRefresh
handleTokenRefresh(s, r) ==
    IF ~s.isRefreshing
    THEN LET s1 == [s EXCEPT !.isRefreshing = TRUE,
                             !.refreshTokenSubject = Null]
             refreshToken == s1.store.refreshToken
         IN  IF ~Truthy(refreshToken)
             THEN Finish([s1 EXCEPT !.isRefreshing = FALSE], r,
                         "errNoRefreshToken")
             ELSE IF isTokenExpired(refreshToken)
             THEN Finish(handleSessionExpired(
                            [s1 EXCEPT !.isRefreshing = FALSE]), r,
                         "errRefreshExpired")
             ELSE StartRefresh(s1, r, "init")
    ELSE \* refreshTokenSubject.pipe(filter(non-null), take(1), switchMap(send))
         IF s.refreshTokenSubject # Null
         THEN Send([s EXCEPT !.req[r].via = "waiter"], r,
                   s.refreshTokenSubject, "retry")
         ELSE [s EXCEPT !.req[r].pc = "waiting", !.req[r].via = "waiter"]

\* AuthInterceptor.intercept, for a request outside its allow-list
intercept(s, r) ==
    LET token == s.store.token
    IN  IF Truthy(token)
        THEN IF isTokenExpired(token) THEN handleTokenRefresh(s, r)
             ELSE Send(s, r, token, "sent")
        ELSE Finish(s, r, "errAuthMissing")

\* an authorizer that lets a request through with whatever getToken() gave
authInterceptorFnBare(s, r) == Send(s, r, s.store.token, "sent")

\* authInterceptorFn, for a request outside its allow-list
authInterceptorFn(s, r) ==
    LET token == s.store.token
    IN  IF Truthy(token) THEN Send(s, r, token, "sent")
        ELSE Finish(s, r, "errAuthMissing")

\* HttpClient call of a protected endpoint through the wired authorizer
Issue(s, r, kind) ==
    LET s1 == [s EXCEPT !.req[r] = [IdleReq EXCEPT !.kind = kind]]
    IN  IF wired = "class" THEN intercept(s1, r)
        ELSE authInterceptorFn(s1, r)

\* HttpClient call of any endpoint through the wired authorizer
IssueCall(s, r, request) ==
    LET s1 == [s EXCEPT !.req[r] = IdleReq]
    IN  IF wired = "class"
        THEN IF skipAuth(request) THEN Forward(s1, r) ELSE intercept(s1, r)
        ELSE IF skipAuthFn(request) THEN Forward(s1, r)
             ELSE authInterceptorFn(s1, r)

\* the catchError of AuthInterceptor.intercept on the first send
interceptError(s, r, kind) ==
    LET currentToken == s.store.token
    IN  IF kind = "e401" /\ Truthy(currentToken)
        THEN handleTokenRefresh(s, r)
        ELSE Finish(s, r, kind)

\* the outer catchError of authInterceptorFn on the first send
authInterceptorFnError(s, r, kind) ==
    IF kind = "e401" /\ Truthy(s.req[r].tok)
    THEN LET refreshToken == s.store.refreshToken
         IN  IF ~Truthy(refreshToken) \/ isTokenExpired(refreshToken)
             THEN Finish([clearLocalStorage(s) EXCEPT !.navigate = "/login"],
                         r, "e401")
             ELSE StartRefresh(s, r, "fn")
    ELSE Finish(s, r, kind)

\* error.status === 401 || error.error?.error?.includes('expired' | 'invalid')
InterceptorSeesRejection(kind) == kind \in {"e401", "eMsgLower"}

\* subject.next(token): every request parked on the subject is sent with it
RECURSIVE ReleaseWaiters(_, _, _)
ReleaseWaiters(s, token, rs) ==
    IF rs = {} THEN s
    ELSE LET r == CHOOSE x \in rs : TRUE
             s1 == IF s.req[r].pc = "waiting"
                   THEN Send(s, r, token, "retry") ELSE s
         IN  ReleaseWaiters(s1, token, rs \ {r})

\* the switchMap / catchError of handleTokenRefresh on the refresh result
handleTokenRefreshResult(s, r, kind, response) ==
    IF kind = "ok"
    THEN LET s1 == refreshTap(s, response)
             s2 == [s1 EXCEPT !.isRefreshing = FALSE]
         IN  IF ~Truthy(response.accessToken)
             THEN \* throwError lands in the catchError below the switchMap
                  Finish([handleSessionExpired(s2)
                             EXCEPT !.isRefreshing = FALSE], r, "errRefresh")
             ELSE LET s3 == ReleaseWaiters(
                               [s2 EXCEPT !.refreshTokenSubject =
                                              response.accessToken],
                               response.accessToken, Req)
                      s4 == IF response.user # "null"
                            THEN [s3 EXCEPT !.store.user = response.user]
                            ELSE s3
                  IN  Send(s4, r, response.accessToken, "retry")
    ELSE LET s1 == [s EXCEPT !.isRefreshing = FALSE]
             s2 == IF InterceptorSeesRejection(kind)
                   THEN handleSessionExpired(s1) ELSE s1
         IN  Finish(s2, r, "errRefresh")

\* the switchMap / inner catchError of authInterceptorFn on the refresh result
authInterceptorFnResult(s, r, kind, response) ==
    IF kind = "ok"
    THEN LET s1 == refreshTap(s, response)
         IN  IF Truthy(response.accessToken)
             THEN Send(s1, r, response.accessToken, "retry")
             ELSE \* throwError(error) lands in the inner catchError
                  Finish([clearLocalStorage(s1) EXCEPT !.navigate = "/login"],
                         r, "e401")
    ELSE Finish([clearLocalStorage(s) EXCEPT !.navigate = "/login"],
                r, "errRefresh")

\* a retry whose 401 is answered by sending the request once more
retryErrorResend(s, r, kind) ==
    IF kind = "e401" THEN Send(s, r, s.req[r].retok, "retry")
    ELSE Finish(s, r, kind)

\* the error of the re-sent request: it passes the catchError that follows
\* the switchMap (class initiator, functional authorizer), or none (waiter)
retryError(s, r, kind) ==
    IF s.req[r].via = "init"
    THEN LET s1 == [s EXCEPT !.isRefreshing = FALSE]
             s2 == IF kind = "e401" THEN handleSessionExpired(s1) ELSE s1
         IN  Finish(s2, r, kind)
    ELSE IF s.req[r].via = "fn"
    THEN Finish([clearLocalStorage(s) EXCEPT !.navigate = "/login"], r, kind)
    ELSE Finish(s, r, kind)


\* ----------------------------------------------------------- SocketService
\* SocketService.isConnected: this.socket?.connected ?? false
isConnected(s) == s.socket = "connected"

\* SocketService.setupEventListeners
setupEventListeners(s) ==
    IF s.socket = "null" THEN s
    ELSE IF s.listenersSetup THEN s
    ELSE [s EXCEPT !.listenersSetup = TRUE, !.registered = @ + 1]

\* SocketService.connect without the teardown of a socket that is not
\* connected: the new socket replaces the reference to the old one
connectKeepsStale(s, token) ==
    IF s.socket = "connected" THEN s
    ELSE IF s.isConnecting THEN s
    ELSE setupEventListeners(
             [s EXCEPT !.isConnecting = TRUE,
                       !.strays = IF s.socket # "null" THEN @ + 1 ELSE @,
                       !.registered = 0,
                       !.listenersSetup = FALSE,
                       !.socket = "connecting"])

\* SocketService.connect
connect(s, token) ==
    IF s.socket = "connected" THEN s
    ELSE IF s.isConnecting THEN s
    ELSE LET s1 == IF s.socket # "null"
                   THEN \* removeAllListeners(); close(); socket = null
                        [s EXCEPT !.registered = 0, !.socket = "null",
                                  !.listenersSetup = FALSE]
                   ELSE s
             \* this.socket = io(...): a socket still referred to here and
             \* not closed would live on without a reference
             s2 == [s1 EXCEPT !.isConnecting = TRUE,
                              !.strays = IF s1.socket # "null" THEN @ + 1
                                         ELSE @,
                              !.registered = 0,
                              !.socket = "connecting"]
         IN  setupEventListeners(s2)

\* SocketService.disconnect that acts on a connected socket only
disconnectIfConnected(s) ==
    IF s.socket = "connected"
    THEN [s EXCEPT !.isConnecting = FALSE, !.listenersSetup = FALSE,
                   !.registered = 0, !.socket = "null"]
    ELSE s

\* SocketService.disconnect
disconnect(s) ==
    LET s1 == [s EXCEPT !.isConnecting = FALSE, !.listenersSetup = FALSE]
    IN  IF s1.socket # "null"
        THEN [s1 EXCEPT !.registered = 0, !.socket = "null"]
        ELSE s1

\* the transport events socket.io raises on a socket
SocketEvents == {"connect", "disconnect", "connect_error", "error"}

\* what socket.io itself does to the socket when it raises the event
Transport(state, ev) ==
    IF ev = "connect" THEN "connected"
    ELSE IF ev \in {"disconnect", "connect_error"} THEN "down"
    ELSE state

\* the event can be raised on a socket in this transport state
Raises(state, ev) ==
    IF ev = "connect" THEN state \in {"connecting", "down"}
    ELSE IF ev = "disconnect" THEN state = "connected"
    ELSE IF ev = "connect_error" THEN state \in {"connecting", "down"}
    ELSE state # "null"

\* the listeners setupEventListeners registered for the transport events
onSocketEvent(s, ev) ==
    LET s1 == [s EXCEPT !.socket = Transport(@, ev)]
    IN  IF s1.registered > 0 THEN [s1 EXCEPT !.isConnecting = FALSE] ELSE s1

\* --------------------------------------------------- ArticleDetailComponent
MaxComments == 3
MaxCount == 4
CommentIds == 1..MaxComments

\* A comment: _id, content (0 as posted, 1 as edited), likes (the length of
\* the likes array) and replies.
Comment(id, content, likes, replies) ==
    [id |-> id, content |-> content, likes |-> likes, replies |-> replies]

\* the fields of the page the comment handlers work on
Page == [comments |-> comments, commentCount |-> commentCount]

\* Array.prototype.findIndex on the _id: the 0-based index, -1 when absent
RECURSIVE findIndexFrom(_, _, _)
findIndexFrom(cs, id, i) ==
    IF i > Len(cs) THEN -1
    ELSE IF cs[i].id = id THEN i - 1
    ELSE findIndexFrom(cs, id, i + 1)

findIndex(cs, id) == findIndexFrom(cs, id, 1)

\* ArticleDetailComponent.countAllComments
RECURSIVE countAllComments(_)
countAllComments(cs) ==
    IF cs = <<>> THEN 0
    ELSE 1 + countAllComments(Head(cs).replies) + countAllComments(Tail(cs))

\* the nodes of the tree that carry the id
RECURSIVE Occurrences(_, _)
Occurrences(cs, id) ==
    IF cs = <<>> THEN 0
    ELSE (IF Head(cs).id = id THEN 1 ELSE 0)
         + Occurrences(Head(cs).replies, id) + Occurrences(Tail(cs), id)

\* addReplyToComment with every reply appended, seen or not
RECURSIVE addReplyAlways(_, _, _)
addReplyAlways(cs, parentCommentId, reply) ==
    IF cs = <<>> THEN <<>>
    ELSE [i \in 1..Len(cs) |->
            LET comment == cs[i]
            IN  IF comment.id = parentCommentId
                THEN [comment EXCEPT !.replies = Append(@, reply)]
                ELSE IF Len(comment.replies) > 0
                THEN [comment EXCEPT
                        !.replies = addReplyAlways(@, parentCommentId, reply)]
                ELSE comment]

\* findAndAdd of addReplyToComment
RECURSIVE findAndAdd(_, _, _)
findAndAdd(cs, parentCommentId, reply) ==
    IF cs = <<>> THEN <<>>
    ELSE [i \in 1..Len(cs) |->
            LET comment == cs[i]
                existingReplyIndex == findIndex(comment.replies, reply.id)
            IN  IF comment.id = parentCommentId
                THEN IF existingReplyIndex = -1
                     THEN [comment EXCEPT !.replies = Append(@, reply)]
                     ELSE [comment EXCEPT
                             !.replies[existingReplyIndex + 1] = reply]
                ELSE IF Len(comment.replies) > 0
                THEN [comment EXCEPT
                        !.replies = findAndAdd(@, parentCommentId, reply)]
                ELSE comment]

\* ArticleDetailComponent.addReplyToComment
addReplyToComment(cs, parentCommentId, reply) ==
    findAndAdd(cs, parentCommentId, reply)

\* findAndUpdate of updateCommentInList: { ...comment, ...updatedComment }
RECURSIVE updateCommentInList(_, _, _)
updateCommentInList(cs, commentId, updatedComment) ==
    IF cs = <<>> THEN <<>>
    ELSE [i \in 1..Len(cs) |->
            LET comment == cs[i]
            IN  IF comment.id = commentId
                THEN [comment EXCEPT !.id = updatedComment.id,
                                     !.content = updatedComment.content]
                ELSE [comment EXCEPT
                        !.replies = updateCommentInList(@, commentId,
                                                        updatedComment)]]

\* updateCommentLikes without the test of the _id
RECURSIVE updateLikesOfAll(_, _, _)
updateLikesOfAll(cs, commentId, likesArray) ==
    IF cs = <<>> THEN <<>>
    ELSE [i \in 1..Len(cs) |->
            [cs[i] EXCEPT !.likes = likesArray,
                          !.replies = updateLikesOfAll(@, commentId, likesArray)]]

\* findAndUpdate of updateCommentLikes
RECURSIVE updateCommentLikes(_, _, _)
updateCommentLikes(cs, commentId, likesArray) ==
    IF cs = <<>> THEN <<>>
    ELSE [i \in 1..Len(cs) |->
            LET comment == cs[i]
            IN  IF comment.id = commentId
                THEN [comment EXCEPT !.likes = likesArray]
                ELSE IF Len(comment.replies) > 0
                THEN [comment EXCEPT
                        !.replies = updateCommentLikes(@, commentId, likesArray)]
                ELSE comment]

\* findCommentAndCount of removeCommentFromList: the comment with its
\* replies, 1 when the comment is not found
RECURSIVE findCommentAndCount(_, _)
findCommentAndCount(cs, commentId) ==
    IF cs = <<>> THEN [found |-> FALSE, count |-> 1]
    ELSE LET comment == Head(cs)
             inReplies == findCommentAndCount(comment.replies, commentId)
         IN  IF comment.id = commentId
             THEN [found |-> TRUE,
                   count |-> 1 + countAllComments(comment.replies)]
             ELSE IF inReplies.found THEN inReplies
             ELSE findCommentAndCount(Tail(cs), commentId)

\* findAndRemove of removeCommentFromList
RECURSIVE findAndRemove(_, _)
findAndRemove(cs, commentId) ==
    LET kept == SelectSeq(cs, LAMBDA c : c.id # commentId)
    IN  IF kept = <<>> THEN <<>>
        ELSE [i \in 1..Len(kept) |->
                [kept[i] EXCEPT !.replies = findAndRemove(@, commentId)]]

\* the ids of the comments in the tree
RECURSIVE IdsOf(_)
IdsOf(cs) ==
    IF cs = <<>> THEN {}
    ELSE {Head(cs).id} \cup IdsOf(Head(cs).replies) \cup IdsOf(Tail(cs))

\* the ids of the comment with the id and of all replies nested below it
RECURSIVE SubtreeIds(_, _)
SubtreeIds(cs, id) ==
    IF cs = <<>> THEN {}
    ELSE (IF Head(cs).id = id
          THEN {id} \cup IdsOf(Head(cs).replies)
          ELSE SubtreeIds(Head(cs).replies, id))
         \cup SubtreeIds(Tail(cs), id)

\* ArticleDetailComponent.removeCommentFromList
removeCommentFromList(p, commentId) ==
    LET commentsToRemove == findCommentAndCount(p.comments, commentId).count
        newCount == IF p.commentCount - commentsToRemove < 0 THEN 0
                    ELSE p.commentCount - commentsToRemove
    IN  [comments |-> findAndRemove(p.comments, commentId),
         commentCount |-> newCount]

\* the newComment listener with the root comment appended, seen or not
onNewCommentUnguarded(p, event) ==
    IF event.article # "this" THEN p
    ELSE IF event.parentCommentId # 0
    THEN [comments |-> addReplyToComment(p.comments, event.parentCommentId,
                                         event.comment),
          commentCount |-> p.commentCount + 1]
    ELSE [comments |-> Append(p.comments, event.comment),
          commentCount |-> p.commentCount + 1]

\* setupSocketListeners: the listener of onNewComment()
onNewComment(p, event) ==
    IF event.article # "this" THEN p
    ELSE IF event.parentCommentId # 0
    THEN [comments |-> addReplyToComment(p.comments, event.parentCommentId,
                                         event.comment),
          commentCount |-> p.commentCount + 1]
    ELSE LET existingIndex == findIndex(p.comments, event.comment.id)
         IN  IF existingIndex = -1
             THEN [comments |-> Append(p.comments, event.comment),
                   commentCount |-> p.commentCount + 1]
             ELSE p

\* setupSocketListeners: the listener of onCommentLiked()
onCommentLiked(p, event) ==
    [p EXCEPT !.comments = updateCommentLikes(@, event.commentId,
                                              event.likesArray)]

\* setupSocketListeners: the listener of onCommentUpdated()
onCommentUpdated(p, event) ==
    IF event.commentId # 0 /\ event.hasComment
    THEN [p EXCEPT !.comments = updateCommentInList(@, event.commentId,
                                                    event.comment)]
    ELSE p

\* setupSocketListeners: the listener of onCommentDeleted()
onCommentDeleted(p, event) ==
    IF event.commentId # 0 THEN removeCommentFromList(p, event.commentId)
    ELSE p

\* What the listener of onNewComment() throws for an event with these
\* fields, "none" when it runs to its end: its first statement reads
\* event.comment.article, a property of undefined when comment is missing.
newCommentThrows(fields) ==
    IF "comment" \notin fields THEN "TypeError" ELSE "none"

\* the newComment event the server emits for comment c
NewCommentEvent(c, articleId) ==
    [comment |-> Comment(c, 0, 0, <<>>), parentCommentId |-> parentOf[c],
     article |-> articleId]

\* ------------------------------------------------------------ AppComponent
MaxNotifs == 2
NotifIds == 1..MaxNotifs

\* the subscriber of onNotification() that prepends whatever arrives
onNotificationAlways(ns, notification) ==
    <<[id |-> notification.id, read |-> notification.read]>> \o ns

\* setupNotificationListeners: the subscriber of onNotification(). An entry
\* is its id (_id and id hold the same value; 0 stands for undefined, the id
\* of an entry built from an event without id) and its read flag.
onNotification(ns, notification) ==
    LET notificationExists ==
            \E i \in 1..Len(ns) : ns[i].id = notification.id
    IN  IF notificationExists THEN ns
        ELSE <<[id |-> notification.id, read |-> notification.read]>> \o ns

\* AppComponent.logTokenExpirationTimes
logTokenExpirationTimes(s) ==
    LET refreshToken == s.store.refreshToken
    IN  IF Truthy(refreshToken)
        THEN IF Decodes(refreshToken) /\ refreshToken.exp # 0
             THEN [s EXCEPT !.refreshTokenExpiresAt = refreshToken.exp]
             ELSE s
        ELSE [s EXCEPT !.refreshTokenExpiresAt = 0]

\* AppComponent.logout (the revision built on AuthService.logout(): void)
logout(s) ==
    [disconnect([authLogout(s) EXCEPT !.notifications = <<>>])
        EXCEPT !.navigate = "/login"]

\* AuthService.logout of the revision that hands its call to the caller:
\* POST /auth/logout through the wired authorizer
authLogoutCall(s, r) == Issue(s, r, "logout")

\* AppComponent.completeLogout. The checkAuth that follows the navigation to
\* '/' finds no session: it resets the same fields again.
completeLogout(s) ==
    [clearLocalStorage(disconnect([s EXCEPT !.notifications = <<>>,
                                            !.refreshTokenExpiresAt = 0,
                                            !.appIsRefreshing = FALSE]))
        EXCEPT !.navigate = "/"]

\* AppComponent.logoutLoading: the call of logout is under way
logoutLoading(s) ==
    \E r \in Req : s.req[r].kind = "logout" /\ s.req[r].pc \notin {"idle", "done"}

\* AppComponent.logout (the revision built on AuthService.logout():
\* Observable): completeLogout runs when the call has settled
logoutSubscribed(s, r) ==
    IF logoutLoading(s) THEN s
    ELSE LET s1 == authLogoutCall(s, r)
         IN  IF s1.req[r].pc = "done"
             THEN [completeLogout(s1) EXCEPT !.lastOp = "logout:completed"]
             ELSE [s1 EXCEPT !.lastOp = "logout:awaiting"]

\* The lowest request slot that is free, 0 when every slot is busy.
FreeSlot(s) ==
    LET free == {r \in Req : s.req[r].pc = "idle"}
    IN  IF free = {} THEN 0
        ELSE CHOOSE r \in free : \A q \in free : r <= q

\* AppComponent.loadNotifications: GET /notifications/unread-count
loadNotifications(s) ==
    IF FreeSlot(s) = 0 THEN s ELSE Issue(s, FreeSlot(s), "api")

\* AppComponent.fetchUserProfile and the getUserProfile of the login page
fetchUserProfile(s) ==
    IF FreeSlot(s) = 0 THEN s ELSE Issue(s, FreeSlot(s), "profile")

\* AppComponent.connectSocket
connectSocket(s) ==
    IF Truthy(s.store.token) THEN connect(s, s.store.token) ELSE s

\* AppComponent.checkAuth
checkAuth(s) ==
    IF isAuthenticated(s)
    THEN LET s1 == IF s.refreshTokenExpiresAt = 0
                   THEN logTokenExpirationTimes(s) ELSE s
         IN  IF ~isConnected(s1) THEN connectSocket(loadNotifications(s1))
             ELSE loadNotifications(s1)
    ELSE disconnect([s EXCEPT !.refreshTokenExpiresAt = 0,
                              !.appIsRefreshing = FALSE,
                              !.notifications = <<>>])

\* error.status === 401 || error.error?.error?.toLowerCase().includes(...)
WatchSeesRejection(kind) == kind \in {"e401", "eMsgLower", "eMsgCapital"}

\* the callback of setInterval in AppComponent.startTokenExpirationCheck
tick(s) ==
    IF ~isAuthenticated(s) THEN [s EXCEPT !.watchRunning = FALSE]
    ELSE LET accessToken == s.store.token
             s1 == IF /\ Decodes(accessToken)
                      /\ accessToken.exp # 0
                      /\ now >= accessToken.exp
                      /\ ~s.appIsRefreshing
                   THEN LET s0 == [s EXCEPT !.appIsRefreshing = TRUE]
                        IN  IF ~Truthy(s0.store.refreshToken)
                            THEN \* refreshToken() throws into the catch
                                 \* that surrounds the parse
                                 s0
                            ELSE [s0 EXCEPT !.watchCalls = Append(@,
                                     [rt |-> s0.store.refreshToken,
                                      at |-> now])]
                   ELSE s
         IN  IF s1.refreshTokenExpiresAt # 0
                /\ now >= s1.refreshTokenExpiresAt
             THEN logout([s1 EXCEPT !.watchRunning = FALSE])
             ELSE s1

RemoveAt(q, i) == [j \in 1..(Len(q) - 1) |-> IF j < i THEN q[j] ELSE q[j + 1]]

\* the next / error callbacks of the watch's refreshToken().subscribe
watchRefreshResult(s, i, kind, response) ==
    LET call == s.watchCalls[i]
        s0 == [s EXCEPT !.watchCalls = RemoveAt(@, i)]
    IN  IF kind = "ok"
        THEN LET s1 == [refreshTap(s0, response)
                           EXCEPT !.appIsRefreshing = FALSE]
             IN  IF Truthy(response.accessToken)
                 THEN logTokenExpirationTimes(s1) ELSE s1
        ELSE LET s1 == [s0 EXCEPT !.appIsRefreshing = FALSE]
                 refreshToken == s1.store.refreshToken
             IN  IF WatchSeesRejection(kind) THEN logout(s1)
                 ELSE IF Truthy(refreshToken)
                 THEN IF Decodes(refreshToken)
                      THEN IF refreshToken.exp # 0
                              /\ call.at >= refreshToken.exp
                           THEN logout(s1) ELSE s1
                      ELSE logout(s1)
                 ELSE logout(s1)

\* A page load: every in-memory field starts over, calls in flight are
\* dropped with the old page, and AppComponent.ngOnInit runs.
ngOnInit(st) ==
    LET s0 == [store |-> st, isRefreshing |-> FALSE,
               refreshTokenSubject |-> Null,
               req |-> [r \in Req |-> IdleReq], watchCalls |-> << >>,
               appIsRefreshing |-> FALSE, refreshTokenExpiresAt |-> 0,
               watchRunning |-> FALSE, lastOp |-> "none",
               socket |-> "null", isConnecting |-> FALSE,
               listenersSetup |-> FALSE, registered |-> 0, strays |-> 0,
               navigate |-> "none", notifications |-> <<>>,
               tokenRemoved |-> FALSE]
        s1 == checkAuth(s0)
    IN  IF isAuthenticated(s1)
        THEN [logTokenExpirationTimes(
                 connectSocket(loadNotifications(fetchUserProfile(s1))))
                 EXCEPT !.watchRunning = TRUE]
        ELSE s1


\* ------------------------------------------------------------- environment
\* POST /auth/login, /auth/register, /auth/refresh answering 200 with a pair
NewPair ==
    Response(Jwt(issued + 1, now + AccessTTL), Jwt(issued + 1, now + RefreshTTL),
             "user")

\* a 200 answer that carries no tokens
NoTokens == Response(Null, Null, "null")

\* the server grants a refresh only for a refresh token that is still valid
ServerAccepts(rt) == Decodes(rt) /\ ~(rt.exp < now)

RefreshErrors == {"e401", "eMsgLower", "eMsgCapital", "eNet"}
RequestErrors == {"e401", "eOther"}

\* What localStorage can hold when the page loads: nothing, a session left by
\* an earlier login with the viewed-articles marker of an earlier visit, or a
\* token stored without a refresh token (the case that
\* AuthService.refreshToken, handleTokenRefresh and the watch test for).
InitStores ==
    { EmptyStore,
      [token |-> Jwt(0, AccessTTL), refreshToken |-> Jwt(0, RefreshTTL),
       user |-> "user", viewedArticles |-> "set"],
      [token |-> Jwt(0, AccessTTL), refreshToken |-> Null,
       user |-> "user", viewedArticles |-> "null"] }

\* the stored session and the services as the application is loaded
InitApp ==
    /\ now = 1
    /\ wired \in {"class", "fn"}
    /\ issued = 0
    /\ \E st \in InitStores :
          LET s == ngOnInit(st)
          IN  /\ store = s.store
              /\ isRefreshing = s.isRefreshing
              /\ refreshTokenSubject = s.refreshTokenSubject
              /\ req = s.req
              /\ watchCalls = s.watchCalls
              /\ appIsRefreshing = s.appIsRefreshing
              /\ refreshTokenExpiresAt = s.refreshTokenExpiresAt
              /\ watchRunning = s.watchRunning
              /\ lastOp = s.lastOp
              /\ socket = s.socket
              /\ isConnecting = s.isConnecting
              /\ listenersSetup = s.listenersSetup
              /\ registered = s.registered
              /\ strays = s.strays
              /\ navigate = s.navigate
              /\ notifications = s.notifications
              /\ tokenRemoved = s.tokenRemoved
    /\ tokenIn = Null
    /\ expired = "none"

\* the application as loaded, before any article is fetched
InitSession ==
    /\ InitApp
    /\ article = NoArticle
    /\ articleState = initialState
    /\ articlesCall = "none"
    /\ emitted = {}
    /\ timers = NoTimers
    /\ appIsAuthenticated = isAuthenticated(St)
    /\ listenerSets = 1

\* the application as loaded, no article displayed
Init ==
    /\ InitSession
    /\ comments = <<>>
    /\ commentCount = 0
    /\ parentOf = [c \in CommentIds |-> 0]

\* ----------------------------------------------------------------- actions
\* a component calls a protected endpoint
IssueRequest(r) ==
    /\ St.req[r].pc = "idle"
    /\ Commit(Issue(St, r, "api"))
    /\ UNCHANGED <<now, wired, issued>>

\* the answer to the first send of request r
FirstResponse(r, kind) ==
    /\ req[r].pc = "sent"
    /\ Commit(IF kind = "ok" THEN Succeed(St, r)
              ELSE IF wired = "class" THEN interceptError(St, r, kind)
              ELSE authInterceptorFnError(St, r, kind))
    /\ UNCHANGED <<now, wired, issued>>

\* the refresh result of the authorizer that r's handler is waiting for
refreshResult(s, r, kind, response) ==
    IF s.req[r].via = "init" THEN handleTokenRefreshResult(s, r, kind, response)
    ELSE authInterceptorFnResult(s, r, kind, response)

RefreshGranted(r) ==
    /\ req[r].pc = "refreshing"
    /\ issued < MaxIssued
    /\ ServerAccepts(req[r].rt)
    /\ Commit(refreshResult(St, r, "ok", NewPair))
    /\ issued' = issued + 1
    /\ UNCHANGED <<now, wired>>

RefreshMalformed(r) ==
    /\ req[r].pc = "refreshing"
    /\ Commit(refreshResult(St, r, "ok", NoTokens))
    /\ UNCHANGED <<now, wired, issued>>

RefreshFailed(r, kind) ==
    /\ req[r].pc = "refreshing"
    /\ Commit(refreshResult(St, r, kind, NoTokens))
    /\ UNCHANGED <<now, wired, issued>>

\* the answer to the re-sent request r
RetryResponse(r, kind) ==
    /\ req[r].pc = "retry"
    /\ Commit(IF kind = "ok" THEN Succeed(St, r) ELSE retryError(St, r, kind))
    /\ UNCHANGED <<now, wired, issued>>

\* one firing of the expiry watch
WatchTick(cap) ==
    /\ watchRunning
    /\ Len(tick(St).watchCalls) <= cap
    /\ Commit(tick(St))
    /\ UNCHANGED <<now, wired, issued>>

Tick == WatchTick(MaxWatchCalls)

WatchRefreshGranted(i) ==
    /\ i \in 1..Len(watchCalls)
    /\ issued < MaxIssued
    /\ ServerAccepts(watchCalls[i].rt)
    /\ Commit(watchRefreshResult(St, i, "ok", NewPair))
    /\ issued' = issued + 1
    /\ UNCHANGED <<now, wired>>

WatchRefreshMalformed(i) ==
    /\ i \in 1..Len(watchCalls)
    /\ Commit(watchRefreshResult(St, i, "ok", NoTokens))
    /\ UNCHANGED <<now, wired, issued>>

WatchRefreshFailed(i, kind) ==
    /\ i \in 1..Len(watchCalls)
    /\ Commit(watchRefreshResult(St, i, kind, NoTokens))
    /\ UNCHANGED <<now, wired, issued>>

\* the clock passes a second
Advance ==
    /\ now < MaxTime
    /\ now' = now + 1
    /\ Commit(St)
    /\ UNCHANGED <<wired, issued>>

\* the user presses logout
Logout ==
    /\ Commit(logout(St))
    /\ UNCHANGED <<now, wired, issued>>

\* the router finishes a navigation
NavigationEnd ==
    /\ Commit(checkAuth(St))
    /\ UNCHANGED <<now, wired, issued>>

\* the page is loaded again (the login page does so after a login)
PageReload ==
    /\ Commit(ngOnInit(store))
    /\ UNCHANGED <<now, wired, issued>>

\* the next callback of the login page (register only navigates)
afterAuth(s, op) == IF op = "login" THEN fetchUserProfile(s) ELSE s

\* the login or the register call is answered with a session
AuthGranted(op) ==
    /\ issued < MaxIssued
    /\ Commit([afterAuth(loginTap(St, NewPair), op) EXCEPT !.lastOp = op])
    /\ issued' = issued + 1
    /\ UNCHANGED <<now, wired>>

\* the login call is answered 200 without an accessToken
AuthMalformed ==
    /\ FreeSlot(St) # 0
    /\ Commit(afterAuth(loginTap(St, NoTokens), "login"))
    /\ UNCHANGED <<now, wired, issued>>

Next ==
    \/ \E r \in Req : IssueRequest(r)
    \/ \E r \in Req, kind \in {"ok"} \cup RequestErrors : FirstResponse(r, kind)
    \/ \E r \in Req : RefreshGranted(r)
    \/ \E r \in Req : RefreshMalformed(r)
    \/ \E r \in Req, kind \in RefreshErrors : RefreshFailed(r, kind)
    \/ \E r \in Req, kind \in {"ok"} \cup RequestErrors : RetryResponse(r, kind)
    \/ WatchTick(MaxWatchCallsBeside)
    \/ \E i \in 1..MaxWatchCalls : WatchRefreshGranted(i)
    \/ \E i \in 1..MaxWatchCalls : WatchRefreshMalformed(i)
    \/ \E i \in 1..MaxWatchCalls, kind \in RefreshErrors : WatchRefreshFailed(i, kind)
    \/ Advance
    \/ Logout
    \/ NavigationEnd
    \/ PageReload
    \/ \E op \in {"login", "register"} : AuthGranted(op)
    \/ AuthMalformed

Spec == Init /\ [][Next]_vars

\* ------------------------------------------------ the expiry watch alone
\* AppComponent with its watch and the answers to the watch's refresh calls,
\* without the callers of protected endpoints.
WatchNext ==
    \/ Tick
    \/ \E i \in 1..MaxWatchCalls : WatchRefreshGranted(i)
    \/ \E i \in 1..MaxWatchCalls : WatchRefreshMalformed(i)
    \/ \E i \in 1..MaxWatchCalls, kind \in RefreshErrors : WatchRefreshFailed(i, kind)
    \/ Advance
    \/ Logout
    \/ NavigationEnd
    \/ PageReload
    \/ \E op \in {"login", "register"} : AuthGranted(op)
    \/ AuthMalformed

SpecWatch == Init /\ [][WatchNext]_vars

\* ------------------------------------ the watch across logout and login
\* the history of the watch brought up to date after a step: a watch that is
\* alive while no token is stored has seen the token removed
Traced(s) ==
    [s EXCEPT !.tokenRemoved = s.watchRunning /\ (@ \/ ~isAuthenticated(s))]

\* one firing of the expiry watch
TickUnderWatch ==
    /\ watchRunning
    /\ Len(tick(St).watchCalls) <= MaxWatchCallsBeside
    /\ Commit(Traced([tick(St) EXCEPT !.lastOp = IF tokenRemoved
                                                 THEN "tick:afterRemoval"
                                                 ELSE "tick"]))
    /\ UNCHANGED <<now, wired, issued>>

\* the user presses logout
LogoutUnderWatch ==
    /\ isAuthenticated(St)
    /\ Commit(Traced(logout(St)))
    /\ UNCHANGED <<now, wired, issued>>

\* the router finishes a navigation
NavigationUnderWatch ==
    /\ Commit(Traced(checkAuth(St)))
    /\ UNCHANGED <<now, wired, issued>>

\* the login or the register call is answered with a session
AuthUnderWatch(op) ==
    /\ issued < MaxIssued
    /\ Commit(Traced([afterAuth(loginTap(St, NewPair), op)
                         EXCEPT !.lastOp = op]))
    /\ issued' = issued + 1
    /\ UNCHANGED <<now, wired>>

UnderWatchNext ==
    \/ TickUnderWatch
    \/ LogoutUnderWatch
    \/ NavigationUnderWatch
    \/ \E op \in {"login", "register"} : AuthUnderWatch(op)
    \/ Advance

SpecUnderWatch == Init /\ [][UnderWatchNext]_vars

\* ------------------------------------- the authorizers and every endpoint
\* a component calls an endpoint, public or protected
CallEndpoint(r, request) ==
    /\ St.req[r].pc = "idle"
    /\ Commit(IssueCall(St, r, request))
    /\ UNCHANGED <<now, wired, issued>>

\* The authorizer with the calls of every endpoint, their answers, the
\* refresh answers, the clock, logout and login.
GateNext ==
    \/ \E r \in Req, request \in Endpoints : CallEndpoint(r, request)
    \/ \E r \in Req, kind \in {"ok"} \cup RequestErrors : FirstResponse(r, kind)
    \/ \E r \in Req : RefreshGranted(r)
    \/ \E r \in Req : RefreshMalformed(r)
    \/ \E r \in Req, kind \in RefreshErrors : RefreshFailed(r, kind)
    \/ \E r \in Req, kind \in {"ok"} \cup RequestErrors : RetryResponse(r, kind)
    \/ Advance
    \/ Logout
    \/ \E op \in {"login", "register"} : AuthGranted(op)

SpecGate == Init /\ [][GateNext]_vars

\* ------------------------------------------------- the realtime channel
\* a component calls SocketService.connect(token) with the stored token
Connect ==
    /\ Truthy(store.token)
    /\ Commit([connect(St, store.token) EXCEPT
                  !.lastOp = IF socket = "connected" \/ isConnecting
                             THEN "connect:noop"
                             ELSE IF socket = "null" THEN "connect:new"
                             ELSE "connect:stale"])
    /\ UNCHANGED <<now, wired, issued>>

\* a component calls SocketService.disconnect()
Disconnect ==
    /\ Commit([disconnect(St) EXCEPT !.lastOp = "disconnect"])
    /\ UNCHANGED <<now, wired, issued>>

\* socket.io raises a transport event on the socket
SocketEvent(ev) ==
    /\ Raises(socket, ev)
    /\ Commit(onSocketEvent(St, ev))
    /\ UNCHANGED <<now, wired, issued>>

\* SocketService with its callers (AppComponent on logout, navigation and
\* page load; the pages that call connect and disconnect) and its transport.
SocketNext ==
    \/ Connect
    \/ Disconnect
    \/ \E ev \in SocketEvents : SocketEvent(ev)
    \/ Logout
    \/ NavigationEnd
    \/ PageReload
    \/ \E op \in {"login", "register"} : AuthGranted(op)

SpecSocket == Init /\ [][SocketNext]_vars

\* ------------------------------------- the messages sent after a connect
MaxTimers == 2       \* 'connect' events whose callbacks have not run yet

\* SocketService.joinUserRoom: what it emits
joinUserRoom(s) == IF isConnected(s) THEN {"joinUserRoom"} ELSE {}

\* SocketService.requestNotificationCount: what it emits
requestNotificationCount(s) ==
    IF isConnected(s) THEN {"notification:getCount"} ELSE {}

\* a 'connect' listener that sends nothing and sets no timer
connectListenerSilent(s) == [emitted |-> {}, count |-> 0, ready |-> 0]

\* setupEventListeners: the listener of 'connect', after the transport has
\* marked the socket connected: what it emits and the timers it sets
connectListener(s) ==
    [emitted |-> joinUserRoom(s), count |-> 1, ready |-> 1]

\* the callback of the listener's setTimeout(..., 300)
countTimer(s) == IF isConnected(s) THEN requestNotificationCount(s) ELSE {}

\* the callback of the listener's setTimeout(..., 100)
readyTimer(s) == IF isConnected(s) THEN {"socketReady"} ELSE {}

\* a component calls SocketService.connect(token) with the stored token
ConnectCalled ==
    /\ Truthy(store.token)
    /\ Assign([connect(St, store.token) EXCEPT !.lastOp = "connect()"])
    /\ emitted' = {}
    /\ UNCHANGED <<now, wired, issued, timers, tokenIn, expired, listVars,
                   pageVars, appIsAuthenticated, listenerSets>>

\* a component calls SocketService.disconnect()
DisconnectCalled ==
    /\ Assign([disconnect(St) EXCEPT !.lastOp = "disconnect()"])
    /\ emitted' = {}
    /\ UNCHANGED <<now, wired, issued, timers, tokenIn, expired, listVars,
                   pageVars, appIsAuthenticated, listenerSets>>

\* socket.io raises a transport event on the socket; 'connect' is raised
\* for the first connection and for every reconnection of the transport
TransportEvent(ev) ==
    /\ Raises(socket, ev)
    /\ ev = "connect" => timers.count < MaxTimers /\ timers.ready < MaxTimers
    /\ LET s1 == onSocketEvent(St, ev)
           heard == IF ev = "connect" /\ s1.registered > 0
                    THEN connectListener(s1)
                    ELSE [emitted |-> {}, count |-> 0, ready |-> 0]
       IN  /\ Assign([s1 EXCEPT !.lastOp = ev])
           /\ emitted' = heard.emitted
           /\ timers' = [count |-> timers.count + heard.count,
                         ready |-> timers.ready + heard.ready]
    /\ UNCHANGED <<now, wired, issued, tokenIn, expired, listVars, pageVars,
                   appIsAuthenticated,
                   listenerSets>>

\* the callback of setTimeout(..., 300) runs
CountTimerFires ==
    /\ timers.count > 0
    /\ timers' = [timers EXCEPT !.count = @ - 1]
    /\ emitted' = countTimer(St)
    /\ Assign([St EXCEPT !.lastOp = "timer:count"])
    /\ UNCHANGED <<now, wired, issued, tokenIn, expired, listVars, pageVars,
                   appIsAuthenticated,
                   listenerSets>>

\* the callback of setTimeout(..., 100) runs
ReadyTimerFires ==
    /\ timers.ready > 0
    /\ timers' = [timers EXCEPT !.ready = @ - 1]
    /\ emitted' = readyTimer(St)
    /\ Assign([St EXCEPT !.lastOp = "timer:ready"])
    /\ UNCHANGED <<now, wired, issued, tokenIn, expired, listVars, pageVars,
                   appIsAuthenticated,
                   listenerSets>>

RoomNext ==
    \/ ConnectCalled
    \/ DisconnectCalled
    \/ \E ev \in SocketEvents : TransportEvent(ev)
    \/ CountTimerFires
    \/ ReadyTimerFires

SpecRoom == Init /\ [][RoomNext]_vars

\* ------------------------------- the later AppComponent and the socket
\* AppComponent.checkAuth of the later revision; wasAuth is what the
\* isAuthenticated signal held when it was called
checkAuthLater(s, wasAuth) ==
    IF isAuthenticated(s)
    THEN LET s1 == IF s.refreshTokenExpiresAt = 0
                   THEN logTokenExpirationTimes(s) ELSE s
         IN  IF ~isConnected(s1) /\ ~wasAuth
             THEN connectSocket(loadNotifications(s1))
             ELSE IF isConnected(s1) THEN loadNotifications(s1)
             ELSE s1
    ELSE IF wasAuth
         THEN disconnect([s EXCEPT !.refreshTokenExpiresAt = 0,
                                   !.appIsRefreshing = FALSE,
                                   !.notifications = <<>>])
         ELSE s

\* the router finishes a navigation
NavigationEndLater ==
    /\ Assign([checkAuthLater(St, appIsAuthenticated) EXCEPT
                  !.lastOp = IF isAuthenticated(St) /\ socket \in {"null", "down"}
                             THEN "navigation:disconnected"
                             ELSE "navigation"])
    /\ appIsAuthenticated' = isAuthenticated(St)
    /\ UNCHANGED <<now, wired, issued, tokenIn, expired, listVars, pageVars,
                   roomVars, listenerSets>>

\* the user's logout is completed
LogoutLater ==
    /\ isAuthenticated(St)
    /\ Assign([completeLogout(St) EXCEPT !.lastOp = "logout"])
    /\ appIsAuthenticated' = FALSE
    /\ UNCHANGED <<now, wired, issued, tokenIn, expired, listVars, pageVars,
                   roomVars, listenerSets>>

\* the article page is left: ArticleDetailComponent.ngOnDestroy
ArticlePageLeft ==
    /\ Commit([disconnect(St) EXCEPT !.lastOp = "ngOnDestroy"])
    /\ UNCHANGED <<now, wired, issued>>

\* The later AppComponent on navigation and logout, the login, the article
\* page that disconnects on leaving, and the transport of the socket.
ReconnectNext ==
    \/ NavigationEndLater
    \/ LogoutLater
    \/ ArticlePageLeft
    \/ \E ev \in SocketEvents : SocketEvent(ev)
    \/ \E op \in {"login", "register"} : AuthGranted(op)

SpecReconnect == Init /\ [][ReconnectNext]_vars

\* ------------------------------------------- teardown and the channel
\* the navigation a handler asked for with router.navigate completes
RouterNavigated ==
    /\ navigate # "none"
    /\ NavigationEnd

\* the steps taken while no navigation asked for by a handler is under way
SettledStep ==
    /\ navigate = "none"
    /\ \/ \E r \in Req : IssueRequest(r)
       \/ \E r \in Req, kind \in {"ok"} \cup RequestErrors :
              FirstResponse(r, kind)
       \/ \E r \in Req : RefreshGranted(r)
       \/ \E r \in Req, kind \in RefreshErrors : RefreshFailed(r, kind)
       \/ \E r \in Req, kind \in {"ok"} \cup RequestErrors :
              RetryResponse(r, kind)
       \/ \E ev \in SocketEvents : SocketEvent(ev)
       \/ Advance
       \/ Logout
       \/ NavigationEnd
       \/ \E op \in {"login", "register"} : AuthGranted(op)

\* The authorizer, logout, login, the router and the transport. A navigation
\* a handler asks for completes before anything else happens; the router
\* always completes it, the user's own navigations may never come.
TeardownNext == RouterNavigated \/ SettledStep

SpecTeardown == Init /\ [][TeardownNext]_vars /\ WF_vars(RouterNavigated)

\* --------------------------------- the watch and the refresh token's expiry
\* one firing of the expiry watch
ExpiryTick ==
    /\ watchRunning
    /\ Len(tick(St).watchCalls) <= MaxWatchCallsBeside
    /\ Commit([tick(St) EXCEPT !.lastOp = IF tick(St).navigate = "/login"
                                          THEN "tick:logout" ELSE "tick"])
    /\ UNCHANGED <<now, wired, issued>>

\* the login call is answered with a session; the login page fetches the
\* profile, navigates to '/' and reloads the page
LoginReloaded ==
    /\ issued < MaxIssued
    /\ Commit([ngOnInit(loginTap(St, NewPair).store) EXCEPT !.lastOp = "login"])
    /\ issued' = issued + 1
    /\ UNCHANGED <<now, wired>>

\* the register call is answered with a session; the register page
\* navigates to '/verify-otp'
RegisterNavigated ==
    /\ issued < MaxIssued
    /\ Commit([checkAuth(loginTap(St, NewPair)) EXCEPT !.lastOp = "register"])
    /\ issued' = issued + 1
    /\ UNCHANGED <<now, wired>>

\* the steps taken while no navigation asked for by a handler is under way
ExpirySettledStep ==
    /\ navigate = "none"
    /\ \/ ExpiryTick
       \/ \E i \in 1..MaxWatchCalls : WatchRefreshGranted(i)
       \/ \E i \in 1..MaxWatchCalls : WatchRefreshMalformed(i)
       \/ \E i \in 1..MaxWatchCalls, kind \in RefreshErrors :
              WatchRefreshFailed(i, kind)
       \/ \E r \in Req : IssueRequest(r)
       \/ \E r \in Req, kind \in {"ok"} \cup RequestErrors :
              FirstResponse(r, kind)
       \/ \E r \in Req : RefreshGranted(r)
       \/ \E r \in Req, kind \in RefreshErrors : RefreshFailed(r, kind)
       \/ \E r \in Req, kind \in {"ok"} \cup RequestErrors :
              RetryResponse(r, kind)
       \/ Advance
       \/ Logout
       \/ NavigationEnd
       \/ PageReload
       \/ LoginReloaded
       \/ RegisterNavigated

\* The watch, the answers to its refresh calls, the authorizer with its own
\* refresh, the clock, logout, login and register. What follows a login or a
\* register (the reload, the navigation) and the navigation a handler asks
\* for complete before the clock moves on.
ExpiryNext == RouterNavigated \/ ExpirySettledStep

SpecExpiry == Init /\ [][ExpiryNext]_vars

\* ------------------------------------------------------ the article page
\* the session, the authorizer, the watch and the socket
appVars == <<store, now, wired, issued, isRefreshing, refreshTokenSubject,
             req, watchCalls, appIsRefreshing, refreshTokenExpiresAt,
             watchRunning, socket, isConnecting, listenersSetup, registered,
             strays, navigate, notifications, tokenRemoved>>

\* the comments of the server: every comment replies to none or to an
\* earlier one
Forests == {f \in [CommentIds -> 0..MaxComments] : \A c \in CommentIds : f[c] < c}

\* the tree of the comments in S below parent p, as getCommentsByArticle
\* answers it
RECURSIVE TreeOf(_, _, _, _)
TreeOf(f, S, p, i) ==
    IF i > MaxComments THEN <<>>
    ELSE IF i \in S /\ f[i] = p
    THEN <<Comment(i, 0, 0, TreeOf(f, S, i, 1))>> \o TreeOf(f, S, p, i + 1)
    ELSE TreeOf(f, S, p, i + 1)

\* the sets of comments that hold the parent of each of their members
Closed(f) == {S \in SUBSET CommentIds : \A c \in S : f[c] = 0 \/ f[c] \in S}

\* the article page is displayed: loadComments has set the snapshot
InitComments ==
    /\ InitSession
    /\ parentOf \in Forests
    /\ \E S \in Closed(parentOf) :
          /\ comments = TreeOf(parentOf, S, 0, 1)
          /\ commentCount = Cardinality(S)

\* the listener's result becomes the page's state
Deliver(p, op) ==
    /\ comments' = p.comments
    /\ commentCount' = p.commentCount
    /\ lastOp' = op

\* the socket delivers newComment for comment c
NewComment(c, articleId) ==
    /\ commentCount < MaxCount
    /\ Deliver(onNewComment(Page, NewCommentEvent(c, articleId)),
               IF Occurrences(comments, c) = 0 THEN "newComment"
               ELSE IF parentOf[c] = 0 THEN "newComment:again:root"
               ELSE "newComment:again:reply")
    /\ UNCHANGED <<appVars, asideVars, parentOf>>

\* the socket delivers commentLiked for comment c
CommentLiked(c, likes) ==
    /\ Deliver(onCommentLiked(Page, [commentId |-> c, likesArray |-> likes]),
               IF c \in IdsOf(comments) THEN "commentLiked"
               ELSE "commentLiked:absent")
    /\ UNCHANGED <<appVars, asideVars, parentOf>>

\* the socket delivers commentUpdated for comment c
CommentUpdated(c) ==
    /\ Deliver(onCommentUpdated(Page, [commentId |-> c, hasComment |-> TRUE,
                                       comment |-> [id |-> c, content |-> 1]]),
               "commentUpdated")
    /\ UNCHANGED <<appVars, asideVars, parentOf>>

\* the socket delivers commentDeleted for comment c
CommentDeleted(c) ==
    /\ Deliver(onCommentDeleted(Page, [commentId |-> c]),
               LET n == Cardinality(SubtreeIds(comments, c))
               IN  IF n = 0 THEN "commentDeleted"
                   ELSE IF n = 1 THEN "commentDeleted:1"
                   ELSE IF n = 2 THEN "commentDeleted:2"
                   ELSE IF n = 3 THEN "commentDeleted:3"
                   ELSE "commentDeleted:more")
    /\ UNCHANGED <<appVars, asideVars, parentOf>>

CommentsNext ==
    \/ \E c \in CommentIds, articleId \in {"this", "other"} :
          NewComment(c, articleId)
    \/ \E c \in CommentIds, likes \in 0..1 : CommentLiked(c, likes)
    \/ \E c \in CommentIds : CommentUpdated(c)
    \/ \E c \in CommentIds : CommentDeleted(c)

SpecComments == InitComments /\ [][CommentsNext]_vars

\* ------------------------------------------------------- the articles
MaxPages == 2        \* the pages the server's article list has
ArticleIds == {"this", "other"}   \* "this" is articleIdValue of the page
Counts == 0..1       \* views and likes counts of articles
Commented == 1..2    \* the comments written while the articles are watched

\* the article the server lists on each page
ArticleOfPage(page) == IF page = 1 THEN "this" ELSE "other"

\* article.reducer.ts: on(loadArticles)
loadArticles(state) == [state EXCEPT !.loading = TRUE, !.error = "null"]

\* article.reducer.ts: on(loadArticlesSuccess)
loadArticlesSuccess(state, articles, pagination, append) ==
    [state EXCEPT !.articles = IF append THEN state.articles \o articles
                               ELSE articles,
                  !.pagination = pagination,
                  !.loading = FALSE,
                  !.error = "null"]

\* article.reducer.ts: on(loadArticlesFailure)
loadArticlesFailure(state, error) ==
    [state EXCEPT !.loading = FALSE, !.error = error,
                  !.articles = IF state.loading THEN <<>> ELSE state.articles]

\* the ids of the listed articles
ListedIds(state) == {state.articles[i].id : i \in 1..Len(state.articles)}

\* the listener of onArticleViewUpdated() without the test of the article id
onArticleViewUpdatedAny(current, data) ==
    IF current # NoArticle THEN [current EXCEPT !.views = data.views]
    ELSE current

\* ArticleDetailComponent.setupSocketListeners: the listener of
\* onArticleViewUpdated()
onArticleViewUpdated(current, data) ==
    IF data.articleId = "this"
    THEN IF current # NoArticle THEN [current EXCEPT !.views = data.views]
         ELSE current
    ELSE current

\* ArticleDetailComponent.setupSocketListeners: the listener of
\* onArticleLiked()
onArticleLiked(current, event) ==
    IF event.articleId = "this"
    THEN IF current # NoArticle THEN [current EXCEPT !.likesCount = event.likes]
         ELSE current
    ELSE current

\* HomeComponent.ngOnInit: the listener of onArticleLiked(); it maps the
\* list and dispatches loadArticlesSuccess with the result
homeOnArticleLiked(state, event) ==
    LET currentArticles == state.articles
        updatedArticles ==
            [i \in 1..Len(currentArticles) |->
               IF currentArticles[i].id = event.articleId
               THEN [currentArticles[i] EXCEPT !.likesCount = event.likes]
               ELSE currentArticles[i]]
        pagination == IF state.pagination.page # 0 THEN state.pagination
                      ELSE [page |-> 1, pages |-> 0]
    IN  loadArticlesSuccess(state, updatedArticles, pagination, FALSE)

\* the steps of the article page and of the list leave the session alone
ListFrame(op) ==
    /\ lastOp' = op
    /\ UNCHANGED <<appVars, tokenIn, expired, roomVars, appIsAuthenticated,
                   listenerSets>>

\* loadArticle has answered: the page displays the article
ArticleLoaded(views, likes) ==
    /\ article = NoArticle
    /\ article' = [id |-> "this", views |-> views, likesCount |-> likes]
    /\ ListFrame("loadArticle")
    /\ UNCHANGED <<pageVars, articleState, articlesCall>>

\* the socket delivers articleViewUpdated to the article page
ArticleViewUpdated(a, views) ==
    /\ article' = onArticleViewUpdated(article, [articleId |-> a, views |-> views])
    /\ ListFrame(IF a = "this" THEN "articleViewUpdated"
                 ELSE "articleViewUpdated:other")
    /\ UNCHANGED <<pageVars, articleState, articlesCall>>

\* the socket delivers articleLiked to the article page
ArticleLiked(a, likes) ==
    /\ article' = onArticleLiked(article, [articleId |-> a, likes |-> likes])
    /\ ListFrame(IF a = "this" THEN "articleLiked" ELSE "articleLiked:other")
    /\ UNCHANGED <<pageVars, articleState, articlesCall>>

\* the socket delivers articleLiked to the home page
HomeArticleLiked(a, likes) ==
    /\ articleState' = homeOnArticleLiked(articleState,
                                          [articleId |-> a, likes |-> likes])
    /\ ListFrame(IF a \in ListedIds(articleState) THEN "home:articleLiked"
                 ELSE "home:articleLiked:unlisted")
    /\ UNCHANGED <<pageVars, article, articlesCall>>

\* HomeComponent.ngOnInit dispatches loadArticles for the first page; the
\* effect's switchMap drops the call it waited for
HomeOpened ==
    /\ articleState' = loadArticles(articleState)
    /\ articlesCall' = "replace"
    /\ ListFrame("loadArticles")
    /\ UNCHANGED <<pageVars, article>>

\* HomeComponent.loadMoreArticles: the trigger at the end of the list is seen
LoadMoreArticles ==
    /\ articleState.pagination.page # 0
    /\ articleState.pagination.page < articleState.pagination.pages
    /\ ~articleState.loading
    /\ articleState' = loadArticles(articleState)
    /\ articlesCall' = "append"
    /\ ListFrame("loadArticles:append")
    /\ UNCHANGED <<pageVars, article>>

\* getArticles answers: the effect dispatches loadArticlesSuccess
ArticlesLoaded(likes) ==
    /\ articlesCall # "none"
    /\ LET append == articlesCall = "append"
           page == IF append THEN articleState.pagination.page + 1 ELSE 1
       IN  articleState' =
             loadArticlesSuccess(articleState,
                 <<[id |-> ArticleOfPage(page), likesCount |-> likes]>>,
                 [page |-> page, pages |-> MaxPages], append)
    /\ articlesCall' = "none"
    /\ ListFrame("loadArticlesSuccess")
    /\ UNCHANGED <<pageVars, article>>

\* getArticles fails: the effect dispatches loadArticlesFailure
ArticlesFailed ==
    /\ articlesCall # "none"
    /\ articleState' = loadArticlesFailure(articleState, "Failed to load articles")
    /\ articlesCall' = "none"
    /\ ListFrame(IF articlesCall = "append" THEN "loadArticlesFailure:append"
                 ELSE "loadArticlesFailure")
    /\ UNCHANGED <<pageVars, article>>

ArticlesNext ==
    \/ \E views, likes \in Counts : ArticleLoaded(views, likes)
    \/ \E a \in ArticleIds, views \in Counts : ArticleViewUpdated(a, views)
    \/ \E a \in ArticleIds, likes \in Counts : ArticleLiked(a, likes)
    \/ \E a \in ArticleIds, likes \in Counts : HomeArticleLiked(a, likes)
    \/ \E c \in Commented, articleId \in ArticleIds : NewComment(c, articleId)
    \/ HomeOpened
    \/ LoadMoreArticles
    \/ \E likes \in Counts : ArticlesLoaded(likes)
    \/ ArticlesFailed

SpecArticles == Init /\ [][ArticlesNext]_vars

\* ------------------------------------- the page across route changes
MaxRouteChanges == 2   \* changes of the route parameter of one page instance

\* every set of subscriptions runs its listener on the event, one after the
\* other: the newComment listener run n times
RECURSIVE newCommentHeardBy(_, _, _)
newCommentHeardBy(n, p, event) ==
    IF n = 0 THEN p ELSE newCommentHeardBy(n - 1, onNewComment(p, event), event)

\* the commentDeleted listener run n times
RECURSIVE commentDeletedHeardBy(_, _, _)
commentDeletedHeardBy(n, p, event) ==
    IF n = 0 THEN p
    ELSE commentDeletedHeardBy(n - 1, onCommentDeleted(p, event), event)

\* the page shows an article with one comment; comment 2 is a reply to it
InitRoute ==
    /\ InitSession
    /\ parentOf = [c \in CommentIds |-> IF c = 2 THEN 1 ELSE 0]
    /\ comments = <<Comment(1, 0, 0, <<>>)>>
    /\ commentCount = 1

\* ArticleDetailComponent.ngOnInit: paramMap emits another id for the same
\* page instance; the tap disconnects a connected socket and calls
\* setupSocketListeners again, and the subscriptions made before end only
\* with destroy$
RouteParamChanged ==
    /\ listenerSets <= MaxRouteChanges
    /\ listenerSets' = listenerSets + 1
    /\ Assign([(IF isConnected(St) THEN disconnect(St) ELSE St)
                  EXCEPT !.lastOp = "paramMap"])
    /\ UNCHANGED <<now, wired, issued, pageVars, tokenIn, expired, listVars,
                   roomVars, appIsAuthenticated>>

\* the socket delivers newComment for comment c of the displayed article
NewCommentHeard(c) ==
    /\ isConnected(St)
    /\ commentCount < MaxCount
    /\ Deliver(newCommentHeardBy(listenerSets, Page, NewCommentEvent(c, "this")),
               IF listenerSets > 1 THEN "newComment:sets" ELSE "newComment")
    /\ UNCHANGED <<appVars, asideVars, parentOf>>

\* the socket delivers commentDeleted for comment c
CommentDeletedHeard(c) ==
    /\ isConnected(St)
    /\ Deliver(commentDeletedHeardBy(listenerSets, Page, [commentId |-> c]),
               IF listenerSets > 1 THEN "commentDeleted:sets"
               ELSE "commentDeleted")
    /\ UNCHANGED <<appVars, asideVars, parentOf>>

\* the article page under the AppComponent that reconnects the socket when
\* a navigation ends
RouteNext ==
    \/ RouteParamChanged
    \/ NavigationEnd
    \/ \E ev \in SocketEvents : SocketEvent(ev)
    \/ \E c \in CommentIds : NewCommentHeard(c)
    \/ \E c \in CommentIds : CommentDeletedHeard(c)

SpecRoute == InitRoute /\ [][RouteNext]_vars

\* ------------------------------------------------- the likes of a comment
\* the users whose ids the likes arrays hold; "me" is currentUserId
Users == {"me", "other"}

\* the likes of the comment with the id, {} when the tree does not hold it
RECURSIVE LikesOf(_, _)
LikesOf(cs, id) ==
    IF cs = <<>> THEN {}
    ELSE IF Head(cs).id = id THEN Head(cs).likes
    ELSE LikesOf(Head(cs).replies, id) \cup LikesOf(Tail(cs), id)

\* ArticleDetailComponent.toggleLike: the next callback of
\* commentService.toggleLike for the comment as the template handed it over;
\* response.likes is a count, the array is made up from the comment's own
toggleLikeNext(p, commentId, currentUserId, newLikesCount) ==
    LET currentLikes == LikesOf(p.comments, commentId)
        hasLiked == currentUserId \in currentLikes
        toggled == IF hasLiked THEN currentLikes \ {currentUserId}
                   ELSE currentLikes \cup {currentUserId}
        updatedLikes ==
            IF Cardinality(toggled) # newLikesCount
            THEN IF newLikesCount > Cardinality(toggled) /\ ~hasLiked
                 THEN toggled \cup {currentUserId}
                 ELSE IF newLikesCount < Cardinality(toggled) /\ hasLiked
                 THEN toggled \ {currentUserId}
                 ELSE toggled
            ELSE toggled
    IN  \* updateCommentInList(comment._id, { likes: updatedLikes })
        [p EXCEPT !.comments = updateCommentLikes(@, commentId, updatedLikes)]

\* the page shows a comment and a reply to it, each liked by some users
InitLikes ==
    /\ InitSession
    /\ parentOf = [c \in CommentIds |-> IF c = 2 THEN 1 ELSE 0]
    /\ \E l1, l2 \in SUBSET Users :
          comments = <<Comment(1, 0, l1, <<Comment(2, 0, l2, <<>>)>>)>>
    /\ commentCount = 2

\* the socket delivers commentLiked for comment c with the server's array
LikesReplaced(c, likesArray) ==
    /\ Deliver(onCommentLiked(Page, [commentId |-> c, likesArray |-> likesArray]),
               "commentLiked")
    /\ UNCHANGED <<appVars, asideVars, parentOf>>

\* the user presses like on comment c and the server answers with the count
LikeToggled(c, newLikesCount) ==
    /\ isAuthenticated(St)
    /\ c \in IdsOf(comments)
    /\ Deliver(toggleLikeNext(Page, c, "me", newLikesCount), "toggleLike")
    /\ UNCHANGED <<appVars, asideVars, parentOf>>

LikesNext ==
    \/ \E c \in CommentIds, likesArray \in SUBSET Users :
          LikesReplaced(c, likesArray)
    \/ \E c \in CommentIds, newLikesCount \in 0..Cardinality(Users) :
          LikeToggled(c, newLikesCount)

SpecLikes == InitLikes /\ [][LikesNext]_vars

\* ------------------------------------------------- the notification list
\* the lists getNotifications answers: no notification twice
ServerLists ==
    {l \in UNION {[1..n -> [id : NotifIds, read : BOOLEAN]] : n \in 0..MaxNotifs} :
        \A i, j \in 1..Len(l) : l[i].id = l[j].id => i = j}

\* the socket raises newNotification (or the legacy notification: both feed
\* notificationSubject) for notification n
NewNotification(n, read) ==
    /\ registered > 0
    /\ Len(notifications) <= MaxNotifs + 1
    /\ Commit([St EXCEPT
                  !.notifications = onNotification(@, [id |-> n, read |-> read]),
                  !.lastOp = IF \E i \in 1..Len(notifications) :
                                    notifications[i].id = n
                             THEN "notification:again"
                             ELSE "notification:new"])
    /\ UNCHANGED <<now, wired, issued>>

\* toggleNotificationDropdown: getNotifications answers with list l
NotificationsLoaded(l) ==
    /\ isAuthenticated(St)
    /\ Commit([St EXCEPT !.notifications = l,
                         !.lastOp = "notifications:loaded"])
    /\ UNCHANGED <<now, wired, issued>>

\* toggleNotificationDropdown: getNotifications fails
NotificationsFailed ==
    /\ isAuthenticated(St)
    /\ Commit([St EXCEPT !.notifications = <<>>,
                         !.lastOp = "notifications:failed"])
    /\ UNCHANGED <<now, wired, issued>>

NotifyNext ==
    \/ \E n \in NotifIds, read \in BOOLEAN : NewNotification(n, read)
    \/ \E l \in ServerLists : NotificationsLoaded(l)
    \/ NotificationsFailed
    \/ Logout
    \/ NavigationEnd
    \/ AuthGranted("login")

SpecNotify == Init /\ [][NotifyNext]_vars

\* ------------------------------------------ reading the notifications
\* AppComponent.markAsRead: the next callback of notificationService.markAsRead
markAsReadNext(ns, notificationId) ==
    [i \in 1..Len(ns) |->
       IF ns[i].id = notificationId THEN [ns[i] EXCEPT !.read = TRUE]
       ELSE ns[i]]

\* AppComponent.markAllAsRead: the next callback of
\* notificationService.markAllAsRead
markAllAsReadNext(ns) == [i \in 1..Len(ns) |-> [ns[i] EXCEPT !.read = TRUE]]

\* the user opens a notification: markAsRead's REST call answers or fails
MarkAsReadAnswered(n, ok) ==
    /\ isAuthenticated(St)
    /\ Commit([St EXCEPT
                  !.notifications = IF ok THEN markAsReadNext(@, n) ELSE @,
                  !.lastOp = IF ok THEN "markAsRead" ELSE "markAsRead:failed"])
    /\ UNCHANGED <<now, wired, issued>>

\* the user presses 'mark all as read': the REST call answers or fails
MarkAllAsReadAnswered(ok) ==
    /\ isAuthenticated(St)
    /\ \E i \in 1..Len(notifications) : ~notifications[i].read
    /\ Commit([St EXCEPT
                  !.notifications = IF ok THEN markAllAsReadNext(@) ELSE @,
                  !.lastOp = IF ok THEN "markAllAsRead"
                             ELSE "markAllAsRead:failed"])
    /\ UNCHANGED <<now, wired, issued>>

\* the bell of an authenticated user: events, the dropdown and the marks
BellNext ==
    \/ \E n \in NotifIds, read \in BOOLEAN : NewNotification(n, read)
    \/ \E l \in ServerLists : NotificationsLoaded(l)
    \/ NotificationsFailed
    \/ \E n \in NotifIds, ok \in BOOLEAN : MarkAsReadAnswered(n, ok)
    \/ \E ok \in BOOLEAN : MarkAllAsReadAnswered(ok)

SpecBell == Init /\ [][BellNext]_vars

\* ------------------------------------------- logout that awaits the server
\* the user presses logout
LogoutClicked(r) ==
    /\ St.req[r].pc = "idle"
    /\ Commit(logoutSubscribed(St, r))
    /\ UNCHANGED <<now, wired, issued>>

\* POST /auth/logout is answered: next and error both run completeLogout
LogoutAnswered(r, kind) ==
    /\ req[r].kind = "logout"
    /\ req[r].pc = "sent"
    /\ Commit([completeLogout(IF kind = "ok" THEN Succeed(St, r)
                              ELSE IF wired = "class"
                              THEN interceptError(St, r, kind)
                              ELSE authInterceptorFnError(St, r, kind))
                  EXCEPT !.lastOp = "logout:completed"])
    /\ UNCHANGED <<now, wired, issued>>

LogoutNext ==
    \/ \E r \in Req : LogoutClicked(r)
    \/ \E r \in Req, kind \in {"ok", "eOther"} : LogoutAnswered(r, kind)
    \/ \E n \in NotifIds, read \in BOOLEAN : NewNotification(n, read)
    \/ \E ev \in SocketEvents : SocketEvent(ev)
    \/ AuthGranted("login")

SpecLogout == Init /\ [][LogoutNext]_vars

\* ------------------------------------------------ events that lack a field
\* the socket raises newComment with an event that has no comment
MalformedNewComment ==
    /\ Deliver(Page, IF newCommentThrows({"parentCommentId"}) = "TypeError"
                     THEN "newComment:TypeError"
                     ELSE "malformed:newComment")
    /\ UNCHANGED <<appVars, asideVars, parentOf>>

\* the socket raises commentUpdated with an event that lacks its commentId
\* (c = 0) or its comment
MalformedCommentUpdated(c, hasComment) ==
    /\ c = 0 \/ ~hasComment
    /\ Deliver(onCommentUpdated(Page, [commentId |-> c,
                                       hasComment |-> hasComment,
                                       comment |-> [id |-> c, content |-> 1]]),
               "malformed:commentUpdated")
    /\ UNCHANGED <<appVars, asideVars, parentOf>>

\* the socket raises commentDeleted with an event that has no commentId
MalformedCommentDeleted ==
    /\ Deliver(onCommentDeleted(Page, [commentId |-> 0]),
               "malformed:commentDeleted")
    /\ UNCHANGED <<appVars, asideVars, parentOf>>

\* the socket raises newNotification with an event that has no id
MalformedNotification(read) ==
    /\ registered > 0
    /\ Commit([St EXCEPT
                  !.notifications = onNotification(@, [id |-> 0, read |-> read]),
                  !.lastOp = "malformed:notification"])
    /\ UNCHANGED <<now, wired, issued>>

Malformed ==
    \/ MalformedNewComment
    \/ \E c \in 0..MaxComments, hasComment \in BOOLEAN :
          MalformedCommentUpdated(c, hasComment)
    \/ MalformedCommentDeleted
    \/ \E read \in BOOLEAN : MalformedNotification(read)

MalformedNext ==
    \/ Malformed
    \/ \E n \in NotifIds, read \in BOOLEAN : NewNotification(n, read)

SpecMalformed == InitComments /\ [][MalformedNext]_vars

\* ------------------------------------------- isTokenExpired on its own
MaxExp == 4          \* exp claims of the tokens handed to isTokenExpired: 0..MaxExp

\* The strings isTokenExpired is called with: nothing, the empty string, a
\* string with one segment, the undecodable ones, payloads without a numeric
\* exp, and JWTs whose exp lies before, at and after the clock.
TokenInputs ==
    {Null, EmptyStr, Undecodable, BadBase64, BadJson, NullPayload, NoExp,
     TextExp} \cup {Jwt(0, e) : e \in 0..MaxExp}

\* a caller asks isTokenExpired(token)
CheckToken(token) ==
    /\ tokenIn' = token
    /\ expired' = IF isTokenExpired(token) THEN "true" ELSE "false"
    /\ UNCHANGED <<store, now, wired, issued, isRefreshing,
                   refreshTokenSubject, req, watchCalls, appIsRefreshing,
                   refreshTokenExpiresAt, watchRunning, lastOp, socket,
                   isConnecting, listenersSetup, registered, strays, navigate,
                   notifications, tokenRemoved, pageVars, listVars, roomVars,
                   appIsAuthenticated, listenerSets>>

TokenNext ==
    \/ \E token \in TokenInputs : CheckToken(token)
    \/ Advance

SpecToken == Init /\ [][TokenNext]_vars


\* ------------------------------------------------------------------ claims
\* refresh calls (POST /auth/refresh) of the authorizer that are in flight
AuthorizerRefreshes == {r \in Req : req[r].pc = "refreshing"}

\* token, refreshToken and user are all absent from localStorage
SessionAbsent(st) ==
    st.token = Null /\ st.refreshToken = Null /\ st.user = "null"

\* C1: while one refresh of the request authorizer is pending, the requests
\* that need a refresh share it: the authorizer never has two refresh calls
\* (POST /auth/refresh) in flight.
C1_OneRefreshForTheGroup == Cardinality(AuthorizerRefreshes) <= 1

\* C2: a request parked on the pending refresh receives that refresh's
\* outcome when it settles, success or failure: no request is still waiting
\* when the authorizer has no refresh in flight.
C2_NoWaiterWithoutRefresh ==
    (\E r \in Req : req[r].pc = "waiting") => AuthorizerRefreshes # {}

\* C3: across all initiators (the authorizer's 401 and expired-token paths
\* and the expiry watch) at most one refresh call is in flight.
C3_AtMostOneRefreshInFlight ==
    Cardinality(AuthorizerRefreshes) + Len(watchCalls) <= 1

\* C4: while a refresh issued by the expiry watch is pending, no tick of the
\* watch issues another one: the watch never has two refresh calls in flight.
C4_WatchIssuesOneRefresh == Len(watchCalls) <= 1

\* C5: a request is handed to the network at most twice, whatever its retry
\* returns; its second send follows a refresh and carries a token that is
\* not the one of its first send.
C5_SentAtMostTwice ==
    \A r \in Req :
        /\ req[r].sends <= 2
        /\ req[r].pc = "retry" =>
              /\ Truthy(req[r].retok)
              /\ req[r].retok # req[r].tok
              /\ req[r].sends = IF Truthy(req[r].tok) THEN 2 ELSE 1

\* C5 witness: a request that got a 401 on its first send is in flight for
\* the second time, with the refreshed token.
C5_Witness ==
    \E r \in Req :
        /\ req[r].pc = "retry"
        /\ req[r].sends = 2
        /\ req[r].retok = store.token

\* C6: a refresh call that fails with a transport-level error (no 401, no
\* invalid/expired message) leaves the persisted session as it was, at the
\* authorizer and at the expiry watch (there, while the stored refresh token
\* has not reached its exp).
C6_NetworkErrorKeepsSession ==
    [][ /\ \A r \in Req : RefreshFailed(r, "eNet") => store' = store
        /\ \A i \in 1..MaxWatchCalls :
               ( /\ WatchRefreshFailed(i, "eNet")
                 /\ Decodes(store.refreshToken)
                 /\ now < store.refreshToken.exp )
                   => store' = store ]_vars

\* C7: a terminal refresh failure (no stored refresh token, refresh token
\* expired, refresh rejected by the server as invalid) leaves token,
\* refreshToken and user absent.
C7_TerminalFailureTearsDown ==
    [][ /\ \A r \in Req :
            /\ req'[r].res \in {"errNoRefreshToken", "errRefreshExpired"}
                  => SessionAbsent(store')
            /\ \A kind \in {"e401", "eMsgLower", "eMsgCapital"} :
                  RefreshFailed(r, kind) => SessionAbsent(store')
        /\ \A i \in 1..MaxWatchCalls,
              kind \in {"e401", "eMsgLower", "eMsgCapital"} :
               WatchRefreshFailed(i, kind) => SessionAbsent(store') ]_vars

\* C8: after logout() token, refreshToken, user and viewedArticles are all
\* removed, whether there was no token or the POST /auth/logout failed.
C8_LogoutClearsFourKeys ==
    lastOp \in {"logout:noToken", "logout:blocked", "logout:sent"}
        => store = EmptyStore

\* C8 witness: logout() ran with a token stored and its POST came to nothing.
C8_Witness == lastOp = "logout:blocked" /\ store = EmptyStore

\* C9: the step that follows a logout() leaves the session cleared unless it
\* is a successful login or register.
C9_ClearedUntilLogin ==
    [][ (lastOp \in {"logout:noToken", "logout:blocked"})
            => ( (SessionAbsent(store') /\ ~isAuthenticated([store |-> store']))
                 \/ (lastOp' \in {"login", "register"}) ) ]_vars

\* C10: isAuthenticated() is true right after a successful login, false right
\* after logout(), and always exactly when a token is persisted.
C10_AuthenticatedIffToken ==
    /\ lastOp \in {"login", "register"} => isAuthenticated(St)
    /\ lastOp \in {"logout:noToken", "logout:blocked", "logout:sent"}
          => ~isAuthenticated(St)
    /\ isAuthenticated(St) <=> store.token # Null

\* C10 witness: a login has just succeeded and the session is authenticated.
C10_Witness == lastOp = "login" /\ isAuthenticated(St) /\ store.token.id = issued

\* C11: isTokenExpired(token) returns true when the exp claim lies in the
\* past, false when it does not, and true for every input that does not
\* decode into a numeric exp.
C11_ExpiredUnlessValid ==
    [][ \A token \in TokenInputs :
           CheckToken(token) =>
              expired' = IF token.k = "jwt" /\ ~(token.exp < now)
                         THEN "false" ELSE "true" ]_vars

\* the endpoints that need no session: the auth endpoints and the public GETs
\* of articles, of an article's comments and of avatars (not /articles/my)
PublicEndpoints ==
    {AuthLoginCall, AuthRefreshCall, ArticlesGet, CommentsGet, AvatarGet}

\* C12: a request to a non-public endpoint is never handed to the network
\* without a bearer token; with no token stored the authorizer fails at once
\* with the authentication-missing error and sends nothing.
C12_NoTokenNothingSent ==
    [][ \A r \in Req :
          /\ req'[r].pc = "sent" => Truthy(req'[r].tok)
          /\ req'[r].pc = "retry" => Truthy(req'[r].retok)
          /\ \A request \in Endpoints \ PublicEndpoints :
                (CallEndpoint(r, request) /\ ~Truthy(store.token))
                   => (req'[r].res = "errAuthMissing" /\ req'[r].sends = 0) ]_vars

\* C12 witness: a call was refused for want of a token and nothing was sent.
C12_Witness ==
    \E r \in Req : /\ req[r].pc = "done"
                   /\ req[r].res = "errAuthMissing"
                   /\ req[r].sends = 0
                   /\ ~Truthy(store.token)

\* C13: a request on the public allow-list is forwarded as it is, without an
\* Authorization header, whether or not a token is stored, and starts no
\* refresh.
C13_PublicForwardedBare ==
    [][ \A r \in Req, request \in PublicEndpoints :
          CallEndpoint(r, request)
             => /\ req'[r].res = "forwarded"
                /\ req'[r].tok = Null
                /\ req'[r].sends = 1
                /\ store' = store ]_vars

\* C14: a protected request made while the stored access token is expired by
\* the local clock is not sent with that token: no request goes out for the
\* first time carrying a token that isTokenExpired.
C14_ExpiredTokenNeverSent ==
    [][ \A r \in Req :
          (req'[r].pc = "sent" /\ req[r].pc # "sent")
             => ~isTokenExpired(req'[r].tok) ]_vars

\* C15: when the refresh started for a request that got a 401 fails, the
\* caller of that request receives the original 401 error.
C15_OriginalErrorOnRefreshFailure ==
    [][ \A r \in Req, kind \in RefreshErrors :
          (RefreshFailed(r, kind) /\ req[r].sends >= 1)
             => req'[r].res = "e401" ]_vars

\* C16: every teardown of the session is followed by a disconnect of the
\* realtime connection: no execution stays forever with the persisted
\* session cleared and the socket still live.
C16_TeardownDisconnects ==
    []<>~(SessionAbsent(store) /\ socket # "null")

\* live sockets: the one SocketService refers to and those it lost track of
LiveSockets == (IF socket = "null" THEN 0 ELSE 1) + strays

\* the fields of SocketService
socketVars == <<socket, isConnecting, listenersSetup, registered, strays>>

\* C17: after any sequence of connect(), disconnect() and transport events
\* there is at most one live socket and at most one registered listener set;
\* connect() while the socket is connected or an attempt is in flight
\* creates no socket and registers no listener; connect() with a stale
\* socket that is not connected tears it down before it creates the new one.
C17_OneSocketOneListenerSet ==
    /\ [](LiveSockets <= 1 /\ registered <= 1)
    /\ [][ Connect =>
             /\ (socket = "connected" \/ isConnecting)
                    => UNCHANGED socketVars
             /\ (socket \in {"connecting", "down"} /\ ~isConnecting)
                    => /\ socket' = "connecting"
                       /\ strays' = strays
                       /\ registered' = 1 ]_vars

\* C17 witness: connect() has just replaced a socket that had lost its
\* connection, and one socket with one listener set is live.
C17_Witness ==
    /\ lastOp = "connect:stale"
    /\ socket = "connecting" /\ isConnecting
    /\ LiveSockets = 1 /\ registered = 1

\* C18: disconnect() is safe from every state and idempotent: it ends with no
\* socket, no registered listeners and the connecting flag cleared, and a
\* second call changes nothing.
C18_DisconnectIdempotent ==
    LET d == disconnect(St)
    IN  /\ d.socket = "null"
        /\ d.registered = 0
        /\ ~d.isConnecting
        /\ ~d.listenersSetup
        /\ disconnect(d) = d

\* C18 witness: disconnect() has just run and left no socket, no listeners
\* and no attempt in flight.
C18_Witness ==
    /\ lastOp = "disconnect"
    /\ socket = "null" /\ registered = 0 /\ ~isConnecting

C20_UniqueIds == \A c \in CommentIds : Occurrences(comments, c) <= 1

\* C20 witness: events have been delivered and the tree holds a root, a
\* reply and a reply to the reply.
C20_Witness ==
    /\ lastOp \in {"newComment", "newComment:again:root", "commentUpdated",
                   "commentDeleted", "commentDeleted:1", "commentLiked"}
    /\ countAllComments(comments) = MaxComments
    /\ \E i \in 1..Len(comments) :
          \E j \in 1..Len(comments[i].replies) :
             Len(comments[i].replies[j].replies) > 0

\* C21: deleting a comment found in the tree removes it with its
\* whole subtree and decrements the article's comment counter by exactly the
\* size of the removed subtree.
C21_DeleteDecrementsBySubtree ==
    [][ \A c \in CommentIds :
          (CommentDeleted(c) /\ c \in IdsOf(comments))
             => /\ IdsOf(comments') = IdsOf(comments) \ SubtreeIds(comments, c)
                /\ commentCount'
                      = commentCount - Cardinality(SubtreeIds(comments, c)) ]_vars

\* C22: a commentLiked event whose commentId is not in the tree changes
\* nothing: the tree with every comment's likes and the article's counter
\* stay as they are, and no comment is inserted.
C22_LikeOfAbsentCommentNoOp ==
    [][ \A c \in CommentIds, likes \in 0..1 :
          (CommentLiked(c, likes) /\ c \notin IdsOf(comments))
             => /\ comments' = comments
                /\ commentCount' = commentCount ]_vars

\* C22 witness: a commentLiked event for a comment that is not in the tree
\* has just been delivered to a page that shows comments, one of them liked.
C22_Witness ==
    /\ lastOp = "commentLiked:absent"
    /\ \E i \in 1..Len(comments) : comments[i].likes = 1
    /\ IdsOf(comments) # CommentIds

\* C23: an event that lacks an expected field is dropped: the listener
\* raises no error and the comment tree, the article's counter and the
\* notification list stay as they are.
C23_MalformedEventDropped ==
    [][ Malformed => /\ lastOp' # "newComment:TypeError"
                     /\ UNCHANGED <<comments, commentCount, notifications>> ]_vars

\* C24: delivery of a notification event never makes the list hold an id
\* twice: an event whose id is in the list changes nothing, one with a new
\* id is prepended at the head.
C24_NotificationsDeduplicated ==
    [][ \A n \in NotifIds, read \in BOOLEAN :
          NewNotification(n, read)
             => IF \E i \in 1..Len(notifications) : notifications[i].id = n
                THEN notifications' = notifications
                ELSE /\ notifications' = <<[id |-> n, read |-> read]>>
                                            \o notifications
                     /\ \A i, j \in 1..Len(notifications') :
                           notifications'[i].id = notifications'[j].id
                              => i = j ]_vars

\* C24 witness: an event whose id the list holds already has just been
\* delivered to a list of two notifications.
C24_Witness ==
    /\ lastOp = "notification:again"
    /\ Len(notifications) = 2

C26_NoTickActsAfterRemoval ==
    [][ (TickUnderWatch /\ tokenRemoved)
           => /\ watchCalls' = watchCalls
              /\ navigate' # "/login"
              /\ store' = store ]_vars

\* C27: in an authenticated session with the watch running, a tick at or
\* after the expiry of the stored refresh token logs the user out: the
\* session is cleared and the watch stopped.
C27_RefreshExpiryForcesLogout ==
    [][ ( /\ ExpiryTick
          /\ isAuthenticated(St)
          /\ Truthy(store.refreshToken)
          /\ Decodes(store.refreshToken)
          /\ NumericExp(store.refreshToken)
          /\ now >= store.refreshToken.exp )
           => /\ store' = EmptyStore
              /\ ~watchRunning' ]_vars

\* C28: the persisted session is populated as a whole: no step takes a
\* store that holds token, refreshToken and user all three or none of them
\* to a store that holds some of them only.
C28_SessionAllOrNone ==
    [][ (SessionAbsent(store) \/ ( /\ store.token # Null
                                   /\ store.refreshToken # Null
                                   /\ store.user # "null" ))
           => (SessionAbsent(store') \/ ( /\ store'.token # Null
                                         /\ store'.refreshToken # Null
                                         /\ store'.user # "null" )) ]_vars

\* C29: the refreshing flag is set only while a refresh call is under way:
\* once a refresh cycle has settled, on whatever path, the flag of the
\* authorizer and the flag of the watch are false again.
C29_RefreshingFlagCleared ==
    /\ isRefreshing => \E r \in Req : req[r].pc = "refreshing"
    /\ appIsRefreshing => Len(watchCalls) > 0

\* C30: a newComment event changes the article's counter by one when it
\* puts a comment into the tree and leaves it alone when it puts none in
\* (a root comment or a reply the tree holds already, a reply to a comment
\* the tree does not hold).
C30_CounterFollowsInsertion ==
    [][ \A c \in CommentIds, articleId \in {"this", "other"} :
          NewComment(c, articleId)
             => commentCount' - commentCount
                  = countAllComments(comments') - countAllComments(comments) ]_vars

\* C31: a deletion applied for a comment the tree does not hold (a second
\* commentDeleted for the same id, or the event that follows the page's own
\* delete) leaves the tree and the article's counter as they are.
C31_DeleteAppliedOnce ==
    [][ \A c \in CommentIds :
          (CommentDeleted(c) /\ c \notin IdsOf(comments))
             => UNCHANGED <<comments, commentCount>> ]_vars

C33_OtherArticleIgnored ==
    [][ /\ \A a \in ArticleIds \ {"this"}, n \in Counts :
             (ArticleLiked(a, n) \/ ArticleViewUpdated(a, n))
                => UNCHANGED <<article, comments, commentCount>>
        /\ \A c \in Commented :
             NewComment(c, "other")
                => UNCHANGED <<article, comments, commentCount>>
        /\ \A a \in ArticleIds, n \in Counts :
             (HomeArticleLiked(a, n) /\ a \notin ListedIds(articleState))
                => articleState'.articles = articleState.articles ]_vars

\* C33 witness: an article is displayed and an event for another one arrived.
C33_Witness ==
    /\ article # NoArticle
    /\ lastOp = "articleViewUpdated:other"

\* C34: every 'connect' event of the socket makes the client emit
\* joinUserRoom and set the timer of the count request; the timer's callback
\* emits notification:getCount when the socket is connected at that moment;
\* nothing is emitted by a step that leaves the socket not connected.
C34_JoinsOnEveryConnect ==
    [][ /\ TransportEvent("connect")
             => /\ "joinUserRoom" \in emitted'
                /\ timers'.count = timers.count + 1
        /\ CountTimerFires
             => emitted' = IF socket = "connected"
                           THEN {"notification:getCount"} ELSE {}
        /\ emitted' # {} => socket' = "connected" ]_vars

\* C34 witness: the socket has connected a second time on the same socket
\* (a reconnection) and the room was joined again.
C34_Witness ==
    /\ lastOp = "connect"
    /\ "joinUserRoom" \in emitted
    /\ timers.count = 2

\* C35: a navigation that ends while the session is authenticated and the
\* socket is disconnected (given up by the transport or closed by
\* disconnect()) calls connect: a connection attempt is under way after it.
C35_NavigationReconnects ==
    [][ (/\ NavigationEndLater
         /\ isAuthenticated(St)
         /\ socket \in {"null", "down"}
         /\ ~isConnecting)
           => socket' = "connecting" ]_vars

\* the step keeps the ids and the order of the list and un-reads nothing
KeepsNotifications ==
    /\ Len(notifications') = Len(notifications)
    /\ \A i \in 1..Len(notifications) :
          /\ notifications'[i].id = notifications[i].id
          /\ notifications[i].read => notifications'[i].read

\* C36: markAsRead and markAllAsRead keep the ids and the order of the list
\* and change read only to true and only on success; a failed REST call of
\* the marks or of the dropdown leaves the list as it is.
C36_NotificationsOnlyRead ==
    [][ /\ \A n \in NotifIds, ok \in BOOLEAN :
             MarkAsReadAnswered(n, ok)
                => IF ok THEN KeepsNotifications ELSE UNCHANGED notifications
        /\ \A ok \in BOOLEAN :
             MarkAllAsReadAnswered(ok)
                => IF ok THEN KeepsNotifications ELSE UNCHANGED notifications
        /\ NotificationsFailed => UNCHANGED notifications ]_vars

\* C37: the failure of the re-sent request, whatever its status, leaves the
\* persisted token, refreshToken and user as the refresh wrote them.
C37_RetryFailureKeepsSession ==
    [][ \A r \in Req, kind \in RequestErrors :
          RetryResponse(r, kind)
             => /\ store'.token = store.token
                /\ store'.refreshToken = store.refreshToken
                /\ store'.user = store.user ]_vars

\* C38: the article's comment counter equals the number of comments in the
\* tree, replies included, and is never negative.
C38_CounterEqualsTree ==
    /\ commentCount = countAllComments(comments)
    /\ commentCount >= 0

\* C39: whatever the number of changes of the route parameter, a newComment
\* or commentDeleted event changes the page as one run of its listener does.
C39_EventAppliedOnce ==
    [][ \A c \in CommentIds :
          /\ NewCommentHeard(c)
               => /\ comments' = onNewComment(Page, NewCommentEvent(c, "this")).comments
                  /\ commentCount'
                       = onNewComment(Page, NewCommentEvent(c, "this")).commentCount
          /\ CommentDeletedHeard(c)
               => /\ comments' = onCommentDeleted(Page, [commentId |-> c]).comments
                  /\ commentCount'
                       = onCommentDeleted(Page, [commentId |-> c]).commentCount ]_vars

\* C40: loadArticlesFailure after a loadArticles that was an append keeps the
\* articles already loaded: the list is emptied only by the failure of a
\* load that was not an append.
C40_FailedAppendKeepsArticles ==
    [][ (ArticlesFailed /\ articlesCall = "append")
          => articleState'.articles = articleState.articles ]_vars

====
